---- MODULE Spec2Model ----
(***************************************************************************)
(* Verification model of the decoration hit-testing and interactive        *)
(* geometry engine: part taxonomy (ssd.c), point classifier (ssd.c),       *)
(* decoration visibility (ssd.c), move anchoring and snap-edge detection   *)
(* (interactive.c), the window-cycle controller (osd.c) and the workspace  *)
(* list (workspaces.c).                                                    *)
(*                                                                         *)
(* Every group of operations has its own specification over the shared     *)
(* variables; a specification pins the variables of the other groups.      *)
(***************************************************************************)
EXTENDS Integers, Sequences, FiniteSets

VARIABLES
    \* ---- part taxonomy: arguments and result of one call
    whole, candidate, part_op, part_result,
    \* ---- point classifier: the decoration's view, the cursor, the
    \* configured corner range, and the result of one call
    ssd, cursor, view, resize_corner_range, point_op, point_result,
    \* ---- decoration visibility: the handle passed to ssd_set_active,
    \* the enabled flag of each sub-tree node, which shadow trees exist,
    \* and the last call with the flags it found
    deco, tree_enabled, shadow_tree, last_set_active,
    \* ---- move anchoring: server->input_mode, the grab box and grab
    \* cursor, the live cursor, the box passed in, and the state the
    \* last call found
    grab_mode, grab_box, grab_x, grab_y, seat_cursor, geo, anchor_op, anchor_old,
    \* ---- snap-edge detection: whether the grabbed view floats, the
    \* configuration, the output nearest the cursor, the global cursor,
    \* the caller's output slot and the result of one call
    grabbed_floating, snap_edge_range, snap_top_maximize, output, edge_cursor, dest_output, edge_op, edge_result,
    \* ---- window cycling: server->views (topmost first), which views
    \* match the switcher criteria, the scene (children of the view tree
    \* and of the preview tree, bottom first, and the enabled flags),
    \* server->input_mode, the seat's focus override, server->osd_state,
    \* the last operation with the state it found, server->grabbed_view,
    \* whether the snap overlay is shown, and the collaborators the last
    \* interactive_cancel invoked, each with the grabbed view of the time
    views, matches, scene, input_mode, focus_override, osd_state, cycle_last,
    grabbed_view, overlay, cancel_calls,
    \* ---- node classifier: the scene node passed to ssd_get_part_type
    \* (its ancestry and the part it is registered as), and the result
    \* of one call with the node-based and cursor-based types it found
    scene_node, node_op, node_result,
    \* ---- workspaces: the configured workspace names, server->workspaces
    \* (the list, current and last), the workspace objects by address, the
    \* workspace and omnipresence of each view, the last mutating call
    \* with the state it found, and the last workspaces_find call
    rc_workspaces, workspaces, ws_heap, ws_views, ws_call, find_call

vars == <<whole, candidate, part_op, part_result,
          ssd, cursor, view, resize_corner_range, point_op, point_result,
          deco, tree_enabled, shadow_tree, last_set_active,
          grab_mode, grab_box, grab_x, grab_y, seat_cursor, geo, anchor_op, anchor_old,
          grabbed_floating, snap_edge_range, snap_top_maximize, output, edge_cursor, dest_output, edge_op, edge_result,
          views, matches, scene, input_mode, focus_override, osd_state, cycle_last,
          grabbed_view, overlay, cancel_calls,
          scene_node, node_op, node_result,
          rc_workspaces, workspaces, ws_heap, ws_views, ws_call, find_call>>


NULL == "NULL"

PartVars == <<whole, candidate, part_op, part_result>>
PointVars == <<ssd, cursor, view, resize_corner_range, point_op, point_result>>


\* The variables of a group while another group's specification runs.
PartIdle ==
    /\ whole = "LAB_SSD_NONE"
    /\ candidate = "LAB_SSD_NONE"
    /\ part_op = "none"
    /\ part_result = "none"

\* An absent cursor: a null pointer, whose coordinates are never read.
NoCursor == [present |-> FALSE, x |-> 0, y |-> 0]

\* The zone locals of a call that returned before computing them.
NoZones ==
    [ computed |-> FALSE, corner_height |-> 0, corner_width |-> 0,
      left |-> FALSE, right |-> FALSE, top |-> FALSE, bottom |-> FALSE ]

NoResult == [type |-> "LAB_SSD_NONE", zones |-> NoZones]

PointIdle ==
    /\ ssd = NULL
    /\ cursor = NoCursor
    /\ view = [ ssd_enabled |-> FALSE, fullscreen |-> FALSE,
                ssd_titlebar_hidden |-> FALSE, shaded |-> FALSE,
                current |-> [x |-> 0, y |-> 0, width |-> 0, height |-> 0] ]
    /\ resize_corner_range = 0
    /\ point_op = "none"
    /\ point_result = NoResult

\* The six sub-tree nodes ssd_set_active may touch.
SubTrees ==
    { "border.active", "titlebar.active", "shadow.active",
      "border.inactive", "titlebar.inactive", "shadow.inactive" }

\* No ssd_set_active call made yet.
NoCall == [called |-> FALSE, active |-> FALSE,
           before |-> [t \in SubTrees |-> FALSE]]

ActiveVars == <<deco, tree_enabled, shadow_tree, last_set_active>>

ActiveIdle ==
    /\ deco = NULL
    /\ tree_enabled = [t \in SubTrees |-> FALSE]
    /\ shadow_tree = [active |-> FALSE, inactive |-> FALSE]
    /\ last_set_active = NoCall


ZeroBox == [x |-> 0, y |-> 0, width |-> 0, height |-> 0]

AnchorVars == <<grab_mode, grab_box, grab_x, grab_y, seat_cursor, geo, anchor_op, anchor_old>>

AnchorIdle ==
    /\ grab_mode = "LAB_INPUT_STATE_PASSTHROUGH"
    /\ grab_box = ZeroBox
    /\ grab_x = 0
    /\ grab_y = 0
    /\ seat_cursor = [x |-> 0, y |-> 0]
    /\ geo = ZeroBox
    /\ anchor_op = "none"
    /\ anchor_old = [grab_box |-> ZeroBox, geo |-> ZeroBox]

EdgeVars == <<grabbed_floating, snap_edge_range, snap_top_maximize, output, edge_cursor, dest_output, edge_op, edge_result>>

EdgeIdle ==
    /\ grabbed_floating = FALSE
    /\ snap_edge_range = 0
    /\ snap_top_maximize = FALSE
    /\ output = [usable |-> FALSE, lx |-> 0, ly |-> 0, usable_area |-> ZeroBox]
    /\ edge_cursor = [x |-> 0, y |-> 0]
    /\ dest_output = NULL
    /\ edge_op = "none"
    /\ edge_result = "VIEW_EDGE_INVALID"

\* Most views on the stack at once.
MaxViews == 3

ViewNames == <<"W1", "W2", "W3", "W4", "W5">>

\* The views that may exist; a view's scene node carries its name.
AllViews == { ViewNames[i] : i \in 1..MaxViews }

\* struct osd_state with no session: every reference null.
NoOsdState ==
    [ cycle_view |-> NULL, preview_node |-> NULL, preview_parent |-> NULL,
      preview_anchor |-> NULL, preview_was_enabled |-> FALSE,
      preview_outline |-> NULL ]

\* No cycle operation performed yet.
NoCycleOp ==
    [ op |-> "none", dir |-> "none", view |-> NULL, below |-> NULL,
      before |-> [ cycle_view |-> NULL,
                   input_mode |-> "LAB_INPUT_STATE_PASSTHROUGH",
                   preview_node |-> NULL, preview_was_enabled |-> FALSE,
                   preview_anchor |-> NULL, focus_override |-> FALSE,
                   grabbed_view |-> NULL, overlay |-> FALSE ] ]

CycleVars == <<views, matches, scene, input_mode, focus_override, osd_state, cycle_last,
               grabbed_view, overlay, cancel_calls>>

CycleIdle ==
    /\ views = <<>>
    /\ matches = [v \in AllViews |-> FALSE]
    /\ scene = [view_tree |-> <<>>, ontop_tree |-> <<>>,
                enabled |-> [v \in AllViews |-> FALSE], fault |-> FALSE]
    /\ input_mode = "LAB_INPUT_STATE_PASSTHROUGH"
    /\ focus_override = FALSE
    /\ osd_state = NoOsdState
    /\ cycle_last = NoCycleOp
    /\ grabbed_view = NULL
    /\ overlay = FALSE
    /\ cancel_calls = <<>>

\* A null node pointer.
NoNode ==
    [ present |-> FALSE, client |-> FALSE, parent |-> NULL,
      grandparent |-> NULL, greatgrandparent |-> NULL,
      part |-> [list |-> NULL, type |-> "LAB_SSD_NONE"] ]

\* No ssd_get_part_type call made yet.
NoNodeResult ==
    [ type |-> "LAB_SSD_NONE", part_type |-> "LAB_SSD_NONE",
      resizing_type |-> "LAB_SSD_NONE" ]

NodeVars == <<scene_node, node_op, node_result>>

NodeIdle ==
    /\ scene_node = NoNode
    /\ node_op = "none"
    /\ node_result = NoNodeResult

\* Most workspaces configured at once; workspace objects live at the
\* addresses 1..MaxWorkspaces.
MaxWorkspaces == 3

WorkspaceIds == 1..MaxWorkspaces

\* The null workspace pointer.
NoWorkspace == 0

\* The address of the list head &server->workspaces.all, seen as a link.
ListHead == 0

\* The views that may exist while workspaces change.
WsViews == {"X1", "X2"}

\* Freed memory at a workspace address.
Freed == [live |-> FALSE, name |-> "", enabled |-> FALSE, active |-> FALSE]

\* A view that has not been created.
NoView == [exists |-> FALSE, workspace |-> NoWorkspace,
           visible_on_all_workspaces |-> FALSE]

\* The workspace state before workspaces_init.
NoWorkspaces ==
    [ workspaces |-> [all |-> <<>>, current |-> NoWorkspace, last |-> NoWorkspace],
      heap |-> [id \in WorkspaceIds |-> Freed],
      views |-> [v \in WsViews |-> NoView] ]

\* No workspace call made yet. A call is kept with its target, the
\* current workspace it found, the workspaces it destroyed and the views
\* it found on those.
NoWsCall == [op |-> "none", target |-> NoWorkspace, old_current |-> NoWorkspace,
             destroyed |-> {}, moved |-> {}]

NoFind == [op |-> "none", anchor |-> NoWorkspace, name |-> NULL,
           wrap |-> FALSE, result |-> NoWorkspace]

WsVars == <<rc_workspaces, workspaces, ws_heap, ws_views, ws_call, find_call>>

WsIdle ==
    /\ rc_workspaces = <<>>
    /\ workspaces = NoWorkspaces.workspaces
    /\ ws_heap = NoWorkspaces.heap
    /\ ws_views = NoWorkspaces.views
    /\ ws_call = NoWsCall
    /\ find_call = NoFind

\* FRAMES-BEGIN
\* For each group: the other groups' variables, which its actions leave
\* alone and its specification pins.
PartFrame == <<PointVars, ActiveVars, AnchorVars, EdgeVars, CycleVars, NodeVars, WsVars>>
PartRest == PointIdle /\ ActiveIdle /\ AnchorIdle /\ EdgeIdle /\ CycleIdle /\ NodeIdle /\ WsIdle
PointFrame == <<PartVars, ActiveVars, AnchorVars, EdgeVars, CycleVars, NodeVars, WsVars>>
PointRest == PartIdle /\ ActiveIdle /\ AnchorIdle /\ EdgeIdle /\ CycleIdle /\ NodeIdle /\ WsIdle
ActiveFrame == <<PartVars, PointVars, AnchorVars, EdgeVars, CycleVars, NodeVars, WsVars>>
ActiveRest == PartIdle /\ PointIdle /\ AnchorIdle /\ EdgeIdle /\ CycleIdle /\ NodeIdle /\ WsIdle
AnchorFrame == <<PartVars, PointVars, ActiveVars, EdgeVars, CycleVars, NodeVars, WsVars>>
AnchorRest == PartIdle /\ PointIdle /\ ActiveIdle /\ EdgeIdle /\ CycleIdle /\ NodeIdle /\ WsIdle
EdgeFrame == <<PartVars, PointVars, ActiveVars, AnchorVars, CycleVars, NodeVars, WsVars>>
EdgeRest == PartIdle /\ PointIdle /\ ActiveIdle /\ AnchorIdle /\ CycleIdle /\ NodeIdle /\ WsIdle
CycleFrame == <<PartVars, PointVars, ActiveVars, AnchorVars, EdgeVars, NodeVars, WsVars>>
CycleRest == PartIdle /\ PointIdle /\ ActiveIdle /\ AnchorIdle /\ EdgeIdle /\ NodeIdle /\ WsIdle
NodeFrame == <<PartVars, PointVars, ActiveVars, AnchorVars, EdgeVars, CycleVars, WsVars>>
NodeRest == PartIdle /\ PointIdle /\ ActiveIdle /\ AnchorIdle /\ EdgeIdle /\ CycleIdle /\ WsIdle
WsFrame == <<PartVars, PointVars, ActiveVars, AnchorVars, EdgeVars, CycleVars, NodeVars>>
WsRest == PartIdle /\ PointIdle /\ ActiveIdle /\ AnchorIdle /\ EdgeIdle /\ CycleIdle /\ NodeIdle
\* FRAMES-END

(***************************************************************************)
(* Part taxonomy                                                           *)
(***************************************************************************)

\* enum ssd_part_type, in declaration order (ordinal = position - 1).
PartTypeOrder ==
    << "LAB_SSD_NONE",
       "LAB_SSD_BUTTON_CLOSE",
       "LAB_SSD_BUTTON_MAXIMIZE",
       "LAB_SSD_BUTTON_ICONIFY",
       "LAB_SSD_BUTTON_WINDOW_ICON",
       "LAB_SSD_BUTTON_OMNIPRESENT",
       "LAB_SSD_BUTTON",
       "LAB_SSD_PART_TITLEBAR",
       "LAB_SSD_PART_TITLE",
       "LAB_SSD_PART_CORNER_TOP_LEFT",
       "LAB_SSD_PART_CORNER_TOP_RIGHT",
       "LAB_SSD_PART_CORNER_BOTTOM_RIGHT",
       "LAB_SSD_PART_CORNER_BOTTOM_LEFT",
       "LAB_SSD_PART_TOP",
       "LAB_SSD_PART_RIGHT",
       "LAB_SSD_PART_BOTTOM",
       "LAB_SSD_PART_LEFT",
       "LAB_SSD_CLIENT",
       "LAB_SSD_FRAME",
       "LAB_SSD_ALL" >>

PartTypes == { PartTypeOrder[i] : i \in DOMAIN PartTypeOrder }

\* The integer value of an enumerator.
Ord(t) == (CHOOSE i \in DOMAIN PartTypeOrder : PartTypeOrder[i] = t) - 1

\* enum wlr_edges as a set of edge bits; bitwise OR is set union.
WLR_EDGE_NONE == {}
WLR_EDGE_TOP == {"TOP"}
WLR_EDGE_BOTTOM == {"BOTTOM"}
WLR_EDGE_LEFT == {"LEFT"}
WLR_EDGE_RIGHT == {"RIGHT"}

\* A slip that forgets the LAB_SSD_ALL wildcard.
ssd_part_contains_no_all(w, c) ==
    IF w = c THEN TRUE
    ELSE IF w = "LAB_SSD_BUTTON"
    THEN Ord(c) >= Ord("LAB_SSD_BUTTON_CLOSE")
         /\ Ord(c) <= Ord("LAB_SSD_BUTTON_OMNIPRESENT")
    ELSE IF w = "LAB_SSD_PART_TITLEBAR"
    THEN Ord(c) >= Ord("LAB_SSD_BUTTON_CLOSE")
         /\ Ord(c) <= Ord("LAB_SSD_PART_TITLE")
    ELSE IF w = "LAB_SSD_PART_TITLE"
    THEN Ord(c) >= Ord("LAB_SSD_PART_TITLEBAR")
         /\ Ord(c) <= Ord("LAB_SSD_PART_TITLE")
    ELSE IF w = "LAB_SSD_FRAME"
    THEN Ord(c) >= Ord("LAB_SSD_BUTTON_CLOSE")
         /\ Ord(c) <= Ord("LAB_SSD_CLIENT")
    ELSE FALSE

\* A slip that ends the titlebar range at the button group, leaving the
\* title out.
ssd_part_contains_titlebar_buttons_only(w, c) ==
    IF w = c \/ w = "LAB_SSD_ALL" THEN TRUE
    ELSE IF w = "LAB_SSD_BUTTON"
    THEN Ord(c) >= Ord("LAB_SSD_BUTTON_CLOSE")
         /\ Ord(c) <= Ord("LAB_SSD_BUTTON_OMNIPRESENT")
    ELSE IF w = "LAB_SSD_PART_TITLEBAR"
    THEN Ord(c) >= Ord("LAB_SSD_BUTTON_CLOSE")
         /\ Ord(c) <= Ord("LAB_SSD_BUTTON")
    ELSE IF w = "LAB_SSD_PART_TITLE"
    THEN Ord(c) >= Ord("LAB_SSD_PART_TITLEBAR")
         /\ Ord(c) <= Ord("LAB_SSD_PART_TITLE")
    ELSE IF w = "LAB_SSD_FRAME"
    THEN Ord(c) >= Ord("LAB_SSD_BUTTON_CLOSE")
         /\ Ord(c) <= Ord("LAB_SSD_CLIENT")
    ELSE IF w = "LAB_SSD_PART_TOP"
    THEN c = "LAB_SSD_PART_CORNER_TOP_LEFT"
         \/ c = "LAB_SSD_PART_CORNER_TOP_RIGHT"
    ELSE IF w = "LAB_SSD_PART_RIGHT"
    THEN c = "LAB_SSD_PART_CORNER_TOP_RIGHT"
         \/ c = "LAB_SSD_PART_CORNER_BOTTOM_RIGHT"
    ELSE IF w = "LAB_SSD_PART_BOTTOM"
    THEN c = "LAB_SSD_PART_CORNER_BOTTOM_RIGHT"
         \/ c = "LAB_SSD_PART_CORNER_BOTTOM_LEFT"
    ELSE IF w = "LAB_SSD_PART_LEFT"
    THEN c = "LAB_SSD_PART_CORNER_TOP_LEFT"
         \/ c = "LAB_SSD_PART_CORNER_BOTTOM_LEFT"
    ELSE FALSE

\* A slip that gives the top edge the bottom-right corner.
ssd_part_contains_top_mixed(w, c) ==
    IF w = c \/ w = "LAB_SSD_ALL" THEN TRUE
    ELSE IF w = "LAB_SSD_BUTTON"
    THEN Ord(c) >= Ord("LAB_SSD_BUTTON_CLOSE")
         /\ Ord(c) <= Ord("LAB_SSD_BUTTON_OMNIPRESENT")
    ELSE IF w = "LAB_SSD_PART_TITLEBAR"
    THEN Ord(c) >= Ord("LAB_SSD_BUTTON_CLOSE")
         /\ Ord(c) <= Ord("LAB_SSD_PART_TITLE")
    ELSE IF w = "LAB_SSD_PART_TITLE"
    THEN Ord(c) >= Ord("LAB_SSD_PART_TITLEBAR")
         /\ Ord(c) <= Ord("LAB_SSD_PART_TITLE")
    ELSE IF w = "LAB_SSD_FRAME"
    THEN Ord(c) >= Ord("LAB_SSD_BUTTON_CLOSE")
         /\ Ord(c) <= Ord("LAB_SSD_CLIENT")
    ELSE IF w = "LAB_SSD_PART_TOP"
    THEN c = "LAB_SSD_PART_CORNER_TOP_LEFT"
         \/ c = "LAB_SSD_PART_CORNER_BOTTOM_RIGHT"
    ELSE IF w = "LAB_SSD_PART_RIGHT"
    THEN c = "LAB_SSD_PART_CORNER_TOP_RIGHT"
         \/ c = "LAB_SSD_PART_CORNER_BOTTOM_RIGHT"
    ELSE IF w = "LAB_SSD_PART_BOTTOM"
    THEN c = "LAB_SSD_PART_CORNER_BOTTOM_RIGHT"
         \/ c = "LAB_SSD_PART_CORNER_BOTTOM_LEFT"
    ELSE IF w = "LAB_SSD_PART_LEFT"
    THEN c = "LAB_SSD_PART_CORNER_TOP_LEFT"
         \/ c = "LAB_SSD_PART_CORNER_BOTTOM_LEFT"
    ELSE FALSE

ssd_part_contains(w, c) ==
    IF w = c \/ w = "LAB_SSD_ALL" THEN TRUE
    ELSE IF w = "LAB_SSD_BUTTON"
    THEN Ord(c) >= Ord("LAB_SSD_BUTTON_CLOSE")
         /\ Ord(c) <= Ord("LAB_SSD_BUTTON_OMNIPRESENT")
    ELSE IF w = "LAB_SSD_PART_TITLEBAR"
    THEN Ord(c) >= Ord("LAB_SSD_BUTTON_CLOSE")
         /\ Ord(c) <= Ord("LAB_SSD_PART_TITLE")
    ELSE IF w = "LAB_SSD_PART_TITLE"
    THEN Ord(c) >= Ord("LAB_SSD_PART_TITLEBAR")
         /\ Ord(c) <= Ord("LAB_SSD_PART_TITLE")
    ELSE IF w = "LAB_SSD_FRAME"
    THEN Ord(c) >= Ord("LAB_SSD_BUTTON_CLOSE")
         /\ Ord(c) <= Ord("LAB_SSD_CLIENT")
    ELSE IF w = "LAB_SSD_PART_TOP"
    THEN c = "LAB_SSD_PART_CORNER_TOP_LEFT"
         \/ c = "LAB_SSD_PART_CORNER_TOP_RIGHT"
    ELSE IF w = "LAB_SSD_PART_RIGHT"
    THEN c = "LAB_SSD_PART_CORNER_TOP_RIGHT"
         \/ c = "LAB_SSD_PART_CORNER_BOTTOM_RIGHT"
    ELSE IF w = "LAB_SSD_PART_BOTTOM"
    THEN c = "LAB_SSD_PART_CORNER_BOTTOM_RIGHT"
         \/ c = "LAB_SSD_PART_CORNER_BOTTOM_LEFT"
    ELSE IF w = "LAB_SSD_PART_LEFT"
    THEN c = "LAB_SSD_PART_CORNER_TOP_LEFT"
         \/ c = "LAB_SSD_PART_CORNER_BOTTOM_LEFT"
    ELSE FALSE

\* A slip that gives the top-right corner the left edge.
ssd_resize_edges_swapped(type) ==
    CASE type = "LAB_SSD_PART_TOP" -> WLR_EDGE_TOP
      [] type = "LAB_SSD_PART_RIGHT" -> WLR_EDGE_RIGHT
      [] type = "LAB_SSD_PART_BOTTOM" -> WLR_EDGE_BOTTOM
      [] type = "LAB_SSD_PART_LEFT" -> WLR_EDGE_LEFT
      [] type = "LAB_SSD_PART_CORNER_TOP_LEFT" -> WLR_EDGE_TOP \cup WLR_EDGE_LEFT
      [] type = "LAB_SSD_PART_CORNER_TOP_RIGHT" -> WLR_EDGE_LEFT \cup WLR_EDGE_TOP
      [] type = "LAB_SSD_PART_CORNER_BOTTOM_RIGHT" ->
            WLR_EDGE_BOTTOM \cup WLR_EDGE_RIGHT
      [] type = "LAB_SSD_PART_CORNER_BOTTOM_LEFT" ->
            WLR_EDGE_BOTTOM \cup WLR_EDGE_LEFT
      [] OTHER -> WLR_EDGE_NONE

ssd_resize_edges(type) ==
    CASE type = "LAB_SSD_PART_TOP" -> WLR_EDGE_TOP
      [] type = "LAB_SSD_PART_RIGHT" -> WLR_EDGE_RIGHT
      [] type = "LAB_SSD_PART_BOTTOM" -> WLR_EDGE_BOTTOM
      [] type = "LAB_SSD_PART_LEFT" -> WLR_EDGE_LEFT
      [] type = "LAB_SSD_PART_CORNER_TOP_LEFT" -> WLR_EDGE_TOP \cup WLR_EDGE_LEFT
      [] type = "LAB_SSD_PART_CORNER_TOP_RIGHT" -> WLR_EDGE_RIGHT \cup WLR_EDGE_TOP
      [] type = "LAB_SSD_PART_CORNER_BOTTOM_RIGHT" ->
            WLR_EDGE_BOTTOM \cup WLR_EDGE_RIGHT
      [] type = "LAB_SSD_PART_CORNER_BOTTOM_LEFT" ->
            WLR_EDGE_BOTTOM \cup WLR_EDGE_LEFT
      [] OTHER -> WLR_EDGE_NONE

\* The arguments of a taxonomy query: any pair of part types.
PartInit ==
    /\ whole \in PartTypes
    /\ candidate \in PartTypes
    /\ part_op = "none"
    /\ part_result = "none"
    /\ PartRest

\* One call ssd_part_contains(whole, candidate).
CallPartContains ==
    /\ part_op = "none"
    /\ part_op' = "contains"
    /\ part_result' = ssd_part_contains(whole, candidate)
    /\ UNCHANGED <<whole, candidate>>
    /\ UNCHANGED PartFrame

\* One call ssd_resize_edges(whole).
CallResizeEdges ==
    /\ part_op = "none"
    /\ part_op' = "edges"
    /\ part_result' = ssd_resize_edges(whole)
    /\ UNCHANGED <<whole, candidate>>
    /\ UNCHANGED PartFrame

PartNext ==
    \/ CallPartContains
    \/ CallResizeEdges

SpecPart == PartInit /\ [][PartNext]_vars

(***************************************************************************)
(* Point classifier: get_resizing_type                                     *)
(***************************************************************************)

\* theme->titlebar_height of the modelled theme.
TitlebarHeight == 2

MIN(a, b) == IF a < b THEN a ELSE b
MAX(a, b) == IF a > b THEN a ELSE b

\* C integer division, which truncates toward zero.
CDiv(a, b) ==
    IF (a >= 0) = (b > 0) THEN a \div b
    ELSE -((-a) \div b)

wlr_box_empty(box) == box.width <= 0 \/ box.height <= 0

wlr_box_contains_point(box, x, y) ==
    IF wlr_box_empty(box) THEN FALSE
    ELSE /\ x >= box.x
         /\ x < box.x + box.width
         /\ y >= box.y
         /\ y < box.y + box.height

\* The height of the view as drawn: nothing while shaded.
view_effective_height(v) == IF v.shaded THEN 0 ELSE v.current.height

\* A slip that never counts the titlebar as part of the view.
effective_view_box_no_titlebar(v) ==
    [v.current EXCEPT !.height = view_effective_height(v)]

\* The box get_resizing_type tests the cursor against (lines 36-44).
effective_view_box(v) ==
    LET view_box == [v.current EXCEPT !.height = view_effective_height(v)]
    IN  IF ~v.ssd_titlebar_hidden
        THEN [view_box EXCEPT !.y = view_box.y - TitlebarHeight,
                              !.height = view_box.height + TitlebarHeight]
        ELSE view_box

\* A slip that leaves the corner range unclamped by the box.
corner_size_unclamped(range, extent) == MAX(0, range)

\* MAX(0, MIN(rc.resize_corner_range, extent / 2)) (lines 51-52).
corner_size(range, extent) == MAX(0, MIN(range, CDiv(extent, 2)))

\* A slip that starts the right zone past the box, not inside it.
resizing_zones_right_gap(view_box, c, range) ==
    LET corner_height == corner_size(range, view_box.height)
        corner_width == corner_size(range, view_box.width)
    IN  [ computed |-> TRUE,
          corner_height |-> corner_height,
          corner_width |-> corner_width,
          left |-> c.x < view_box.x + corner_width,
          right |-> c.x > view_box.x + view_box.width,
          top |-> c.y < view_box.y + corner_height,
          bottom |-> c.y > view_box.y + view_box.height - corner_height ]

\* The locals of get_resizing_type once the early returns are passed.
resizing_zones(view_box, c, range) ==
    LET corner_height == corner_size(range, view_box.height)
        corner_width == corner_size(range, view_box.width)
    IN  [ computed |-> TRUE,
          corner_height |-> corner_height,
          corner_width |-> corner_width,
          left |-> c.x < view_box.x + corner_width,
          right |-> c.x > view_box.x + view_box.width - corner_width,
          top |-> c.y < view_box.y + corner_height,
          bottom |-> c.y > view_box.y + view_box.height - corner_height ]

\* The priority chain of lines 58-76.
zone_type(z) ==
    IF z.top /\ z.left THEN "LAB_SSD_PART_CORNER_TOP_LEFT"
    ELSE IF z.top /\ z.right THEN "LAB_SSD_PART_CORNER_TOP_RIGHT"
    ELSE IF z.bottom /\ z.left THEN "LAB_SSD_PART_CORNER_BOTTOM_LEFT"
    ELSE IF z.bottom /\ z.right THEN "LAB_SSD_PART_CORNER_BOTTOM_RIGHT"
    ELSE IF z.top THEN "LAB_SSD_PART_TOP"
    ELSE IF z.bottom THEN "LAB_SSD_PART_BOTTOM"
    ELSE IF z.left THEN "LAB_SSD_PART_LEFT"
    ELSE IF z.right THEN "LAB_SSD_PART_RIGHT"
    ELSE "LAB_SSD_NONE"

\* A slip that forgets the fullscreen test of the first early return.
resizing_guard_no_fullscreen(s, c, v) ==
    s = NULL \/ ~c.present \/ ~v.ssd_enabled

\* !view || !cursor || !view->ssd_enabled || view->fullscreen (lines 31-32);
\* the view is the decoration's view, absent with the decoration.
resizing_guard(s, c, v) ==
    s = NULL \/ ~c.present \/ ~v.ssd_enabled \/ v.fullscreen

\* get_resizing_type: the part type and, where computed, the zone locals.
get_resizing_type(s, c, v, range) ==
    IF resizing_guard(s, c, v)
    THEN [type |-> "LAB_SSD_NONE", zones |-> NoZones]
    ELSE LET view_box == effective_view_box(v)
         IN  IF wlr_box_contains_point(view_box, c.x, c.y)
             THEN [type |-> "LAB_SSD_NONE", zones |-> NoZones]
             ELSE LET z == resizing_zones(view_box, c, range)
                  IN  [type |-> zone_type(z), zones |-> z]

\* Box extents and cursor offsets that put the cursor on either side of
\* every threshold the classifier compares against.
BoxWidths == {0, 1, 5, 40}
BoxHeights == {1, 5, 40}
CornerRanges == {0, 2, 10000}
CursorOffsets == {-1, 0, 1, 2, 3, 4, 5, 19, 20, 21, 38, 39, 40}
CursorXs == { 3 + d : d \in CursorOffsets }
CursorYs == { 7 + d : d \in CursorOffsets }
                \cup { 7 - TitlebarHeight + d : d \in {-1, 0, 1, 2} }
                \cup { 7 + TitlebarHeight + d : d \in {38, 39, 40} }

\* Any decoration state and flags of its view, any cursor; the full range
\* of geometry is drawn for a decorated, windowed view with a cursor.
PointInit ==
    /\ ssd \in {NULL, "ssd"}
    /\ cursor \in {NoCursor} \cup [present : {TRUE}, x : CursorXs, y : CursorYs]
    /\ view \in [ ssd_enabled : BOOLEAN,
                  fullscreen : BOOLEAN,
                  ssd_titlebar_hidden : BOOLEAN,
                  shaded : BOOLEAN,
                  current : [x : {3}, y : {7},
                             width : BoxWidths, height : BoxHeights] ]
    /\ resize_corner_range \in CornerRanges
    /\ \/ ~resizing_guard(ssd, cursor, view)
       \/ /\ view.current.width \in {5, 40}
          /\ view.current.height = 5
          /\ resize_corner_range = 2
          /\ ~view.shaded
    /\ point_op = "none"
    /\ point_result = NoResult
    /\ PointRest

\* One call get_resizing_type(ssd, cursor).
CallGetResizingType ==
    /\ point_op = "none"
    /\ point_op' = "get_resizing_type"
    /\ point_result' = get_resizing_type(ssd, cursor, view, resize_corner_range)
    /\ UNCHANGED <<ssd, cursor, view, resize_corner_range>>
    /\ UNCHANGED PointFrame

PointNext == CallGetResizingType

SpecPoint == PointInit /\ [][PointNext]_vars

(***************************************************************************)
(* Node classifier: ssd_get_part_type                                      *)
(***************************************************************************)

\* The sub-trees of a decoration that keep a part list.
PartLists ==
    { "titlebar.active", "titlebar.inactive", "border.active",
      "border.inactive", "extents" }

\* The parent of each tree of the scene around a decoration: the
\* active and inactive sub-trees under the titlebar and border trees,
\* these and the extents under the decoration's tree, the decoration and
\* the client content under the view's tree.
TreeParent(t) ==
    IF t \in {"titlebar.active", "titlebar.inactive"} THEN "titlebar"
    ELSE IF t \in {"border.active", "border.inactive"} THEN "border"
    ELSE IF t \in {"titlebar", "border", "extents"} THEN "ssd"
    ELSE IF t \in {"ssd", "content"} THEN "view"
    ELSE NULL

\* A node `depth` levels below tree `under`, registered as `part`.
NodeUnder(under, depth, client, part) ==
    [ present |-> TRUE,
      client |-> client,
      parent |-> IF depth = 1 THEN under ELSE "widget",
      grandparent |-> IF depth = 1 THEN TreeParent(under)
                      ELSE IF depth = 2 THEN under ELSE "button",
      greatgrandparent |-> IF depth = 1 THEN TreeParent(TreeParent(under))
                           ELSE IF depth = 2 THEN TreeParent(under)
                           ELSE under,
      part |-> part ]

\* A slip that restores the match on the extents sub-tree.
part_list_of_with_extents(n) ==
    IF n.parent = "titlebar.active" THEN "titlebar.active"
    ELSE IF n.grandparent = "titlebar.active" THEN "titlebar.active"
    ELSE IF n.greatgrandparent = "titlebar.active" THEN "titlebar.active"
    ELSE IF n.parent = "extents" THEN "extents"
    ELSE IF n.parent = "border.active" THEN "border.active"
    ELSE IF n.parent = "titlebar.inactive" THEN "titlebar.inactive"
    ELSE IF n.grandparent = "titlebar.inactive" THEN "titlebar.inactive"
    ELSE IF n.greatgrandparent = "titlebar.inactive" THEN "titlebar.inactive"
    ELSE IF n.parent = "border.inactive" THEN "border.inactive"
    ELSE NULL

\* The part list chosen from the node's ancestry (lines 92-125); the
\* match on the extents sub-tree is commented out in the source.
part_list_of(n) ==
    IF n.parent = "titlebar.active" THEN "titlebar.active"
    ELSE IF n.grandparent = "titlebar.active" THEN "titlebar.active"
    ELSE IF n.greatgrandparent = "titlebar.active" THEN "titlebar.active"
    ELSE IF n.parent = "border.active" THEN "border.active"
    ELSE IF n.parent = "titlebar.inactive" THEN "titlebar.inactive"
    ELSE IF n.grandparent = "titlebar.inactive" THEN "titlebar.inactive"
    ELSE IF n.greatgrandparent = "titlebar.inactive" THEN "titlebar.inactive"
    ELSE IF n.parent = "border.inactive" THEN "border.inactive"
    ELSE NULL

\* The scan of the chosen list for the node (lines 127-137).
node_part_type(n) ==
    LET part_list == part_list_of(n)
    IN  IF part_list # NULL /\ n.part.list = part_list
        THEN n.part.type
        ELSE "LAB_SSD_NONE"

\* The result of ssd_get_part_type with the two types it is made of.
NodeResult(type, part_type, resizing_type) ==
    [type |-> type, part_type |-> part_type, resizing_type |-> resizing_type]

\* A slip that never consults the cursor.
ssd_get_part_type_no_override(s, n, c, v, range) ==
    IF ~n.present
    THEN NodeResult("LAB_SSD_NONE", "LAB_SSD_NONE", "LAB_SSD_NONE")
    ELSE IF n.client
    THEN NodeResult("LAB_SSD_CLIENT", "LAB_SSD_NONE", "LAB_SSD_NONE")
    ELSE IF s = NULL
    THEN NodeResult("LAB_SSD_NONE", "LAB_SSD_NONE", "LAB_SSD_NONE")
    ELSE LET part_type == node_part_type(n)
         IN  NodeResult(part_type, part_type, "LAB_SSD_NONE")

\* ssd_get_part_type(ssd, node, cursor).
ssd_get_part_type(s, n, c, v, range) ==
    IF ~n.present
    THEN NodeResult("LAB_SSD_NONE", "LAB_SSD_NONE", "LAB_SSD_NONE")
    ELSE IF n.client
    THEN NodeResult("LAB_SSD_CLIENT", "LAB_SSD_NONE", "LAB_SSD_NONE")
    ELSE IF s = NULL
    THEN NodeResult("LAB_SSD_NONE", "LAB_SSD_NONE", "LAB_SSD_NONE")
    ELSE LET part_type == node_part_type(n)
         IN  IF part_type = "LAB_SSD_NONE"
             THEN NodeResult(part_type, part_type, "LAB_SSD_NONE")
             ELSE LET resizing_type == get_resizing_type(s, c, v, range).type
                  IN  NodeResult(IF resizing_type # "LAB_SSD_NONE"
                                 THEN resizing_type ELSE part_type,
                                 part_type, resizing_type)

\* The part types registered in each list, and an unregistered node.
Unregistered == [list |-> NULL, type |-> "LAB_SSD_NONE"]

RegisteredParts(list) ==
    IF list \in {"titlebar.active", "titlebar.inactive"}
    THEN [ list : {list},
           type : { "LAB_SSD_BUTTON_CLOSE", "LAB_SSD_PART_TITLE",
                    "LAB_SSD_PART_TITLEBAR" } ]
    ELSE IF list \in {"border.active", "border.inactive"}
    THEN [list : {list}, type : {"LAB_SSD_PART_TOP", "LAB_SSD_PART_LEFT"}]
    ELSE IF list = "extents"
    THEN [ list : {list},
           type : {"LAB_SSD_PART_TOP", "LAB_SSD_PART_CORNER_TOP_LEFT"} ]
    ELSE {}

\* The nodes a hit test reports: none, a client surface buffer, or a node
\* one to three levels below a decoration sub-tree, registered in the
\* list of that sub-tree or in none.
SceneNodes ==
    {NoNode}
      \cup { NodeUnder("content", 1, TRUE, Unregistered) }
      \cup UNION { { NodeUnder(t, d, FALSE, p) :
                        d \in 1..3,
                        p \in {Unregistered} \cup RegisteredParts(t) } :
                    t \in PartLists }
      \cup { NodeUnder("content", 1, FALSE, Unregistered) }

\* A 40x40 view at (3, 7) and cursors left of, inside and right of it,
\* above, inside and below it.
NodeInit ==
    /\ ssd \in {NULL, "ssd"}
    /\ cursor \in {NoCursor} \cup [present : {TRUE}, x : {2, 23, 43},
                                   y : {7 - TitlebarHeight - 1, 27, 47}]
    /\ view \in [ ssd_enabled : BOOLEAN,
                  fullscreen : BOOLEAN,
                  ssd_titlebar_hidden : BOOLEAN,
                  shaded : {FALSE},
                  current : [x : {3}, y : {7}, width : {40}, height : {40}] ]
    /\ resize_corner_range = 2
    /\ point_op = "none"
    /\ point_result = NoResult
    /\ scene_node \in SceneNodes
    /\ node_op = "none"
    /\ node_result = NoNodeResult
    /\ PartIdle /\ ActiveIdle /\ AnchorIdle /\ EdgeIdle /\ CycleIdle /\ WsIdle

\* One call ssd_get_part_type(ssd, node, cursor).
CallGetPartType ==
    /\ node_op = "none"
    /\ node_op' = "ssd_get_part_type"
    /\ node_result' = ssd_get_part_type(ssd, scene_node, cursor, view,
                                        resize_corner_range)
    /\ UNCHANGED scene_node
    /\ UNCHANGED NodeFrame

NodeNext == CallGetPartType

SpecNode == NodeInit /\ [][NodeNext]_vars

(***************************************************************************)
(* Decoration visibility: ssd_set_active                                   *)
(***************************************************************************)

\* wlr_scene_node_set_enabled on the node of one sub-tree.
set_enabled(en, t, value) == [en EXCEPT ![t] = value]

\* A slip that passes `active` to the inactive sub-trees as well.
ssd_set_active_same(s, en, shadow, active) ==
    IF s = NULL THEN en
    ELSE LET e1 == set_enabled(en, "border.active", active)
             e2 == set_enabled(e1, "titlebar.active", active)
             e3 == IF shadow.active
                   THEN set_enabled(e2, "shadow.active", active) ELSE e2
             e4 == set_enabled(e3, "border.inactive", active)
             e5 == set_enabled(e4, "titlebar.inactive", active)
             e6 == IF shadow.inactive
                   THEN set_enabled(e5, "shadow.inactive", active) ELSE e5
         IN  e6

\* ssd_set_active: the enabled flags after the call.
ssd_set_active(s, en, shadow, active) ==
    IF s = NULL THEN en
    ELSE LET e1 == set_enabled(en, "border.active", active)
             e2 == set_enabled(e1, "titlebar.active", active)
             e3 == IF shadow.active
                   THEN set_enabled(e2, "shadow.active", active) ELSE e2
             e4 == set_enabled(e3, "border.inactive", ~active)
             e5 == set_enabled(e4, "titlebar.inactive", ~active)
             e6 == IF shadow.inactive
                   THEN set_enabled(e5, "shadow.inactive", ~active) ELSE e5
         IN  e6

\* A decoration handle or none; any enabled flags on the nodes that exist
\* (a shadow tree that does not exist has no node to enable).
ActiveInit ==
    /\ deco \in {NULL, "ssd"}
    /\ shadow_tree \in [active : BOOLEAN, inactive : BOOLEAN]
    /\ tree_enabled \in [SubTrees -> BOOLEAN]
    /\ shadow_tree.active \/ ~tree_enabled["shadow.active"]
    /\ shadow_tree.inactive \/ ~tree_enabled["shadow.inactive"]
    /\ last_set_active = NoCall
    /\ ActiveRest

\* One call ssd_set_active(deco, active).
CallSetActive ==
    \E active \in BOOLEAN :
        /\ tree_enabled' = ssd_set_active(deco, tree_enabled, shadow_tree, active)
        /\ last_set_active' =
              [called |-> TRUE, active |-> active, before |-> tree_enabled]
        /\ UNCHANGED <<deco, shadow_tree>>
        /\ UNCHANGED ActiveFrame

ActiveNext == CallSetActive

SpecActive == ActiveInit /\ [][ActiveNext]_vars

(***************************************************************************)
(* Move anchoring: max_move_scale, interactive_anchor_to_cursor            *)
(***************************************************************************)

\* Largest extents of the small grab boxes and new boxes drawn.
MaxOldSize == 3
MaxNewSize == 4

\* What a double-to-int conversion of an infinity or NaN may produce.
UndefinedInts == {-2147483647 - 1, 0, 2147483647}

\* A slip that scales the offset by the old size, not the new one.
scaled_positions_by_old_size(pos_cursor, pos_old, size_old, size_new) ==
    IF size_old = 0 THEN UndefinedInts
    ELSE { CDiv(pos_cursor * size_old - size_old * (pos_cursor - pos_old),
                size_old) }

\* (int)(pos_cursor - size_new * anchor_frac) with
\* anchor_frac = (pos_cursor - pos_old) / size_old, in exact arithmetic:
\* the quotient truncated toward zero. A zero size_old divides by zero
\* and the conversion of the infinity or NaN is undefined.
scaled_positions(pos_cursor, pos_old, size_old, size_new) ==
    IF size_old = 0 THEN UndefinedInts
    ELSE { CDiv(pos_cursor * size_old - size_new * (pos_cursor - pos_old),
                size_old) }

\* A slip that drops the clamp to the old position.
max_move_scale_unclamped(pos_cursor, pos_old, size_old, size_new) ==
    scaled_positions(pos_cursor, pos_old, size_old, size_new)

\* max_move_scale: the values it may return.
max_move_scale(pos_cursor, pos_old, size_old, size_new) ==
    { IF pos_new < pos_old THEN pos_old ELSE pos_new :
        pos_new \in scaled_positions(pos_cursor, pos_old, size_old, size_new) }

\* (int)(pos + delta): the sum of the double expression converted back to
\* int, undefined when it does not fit.
offset_positions(pos, delta) ==
    IF \/ delta > 0 /\ pos > 2147483647 - delta
       \/ delta < 0 /\ pos < (-2147483647 - 1) - delta
    THEN UndefinedInts
    ELSE {pos + delta}

\* One axis of a grab: the old box, the grab cursor and the new extent.
AxisCases ==
    { a \in [pos : {-1, 2}, size : 0..MaxOldSize,
             grab : -2..(2 + MaxOldSize), new : 0..MaxNewSize] :
        a.pos - 1 <= a.grab /\ a.grab <= a.pos + a.size }

\* A grab in progress (move or resize) on a small box, or the documented
\* example: box (0,0,200,100) grabbed at (150,50), new size 100x50.
AnchorInit ==
    /\ grab_mode \in {"LAB_INPUT_STATE_MOVE", "LAB_INPUT_STATE_RESIZE"}
    /\ \/ \E ax \in AxisCases, ay \in AxisCases, d \in {0, 2} :
            /\ grab_mode = "LAB_INPUT_STATE_MOVE"
            /\ grab_box = [x |-> ax.pos, y |-> ay.pos,
                           width |-> ax.size, height |-> ay.size]
            /\ grab_x = ax.grab
            /\ grab_y = ay.grab
            /\ seat_cursor = [x |-> ax.grab + d, y |-> ay.grab - d]
            /\ geo = [x |-> ax.pos, y |-> ay.pos,
                      width |-> ax.new, height |-> ay.new]
       \/ /\ grab_box = [x |-> 0, y |-> 0, width |-> 200, height |-> 100]
          /\ grab_x = 150
          /\ grab_y = 50
          /\ seat_cursor = [x |-> 150, y |-> 50]
          /\ geo = [x |-> 0, y |-> 0, width |-> 100, height |-> 50]
    /\ anchor_op = "none"
    /\ anchor_old = [grab_box |-> ZeroBox, geo |-> ZeroBox]
    /\ AnchorRest

\* One call interactive_anchor_to_cursor(server, geo); the assertion on
\* the input mode is its precondition.
CallAnchorToCursor ==
    /\ anchor_op = "none"
    /\ grab_mode = "LAB_INPUT_STATE_MOVE"
    /\ anchor_op' = "interactive_anchor_to_cursor"
    /\ anchor_old' = [grab_box |-> grab_box, geo |-> geo]
    /\ IF wlr_box_empty(geo)
       THEN UNCHANGED <<grab_box, geo>>
       ELSE \E nx \in max_move_scale(grab_x, grab_box.x, grab_box.width, geo.width),
               ny \in max_move_scale(grab_y, grab_box.y, grab_box.height, geo.height) :
                /\ grab_box' = [x |-> nx, y |-> ny,
                                width |-> geo.width, height |-> geo.height]
                /\ \E gx \in offset_positions(nx, seat_cursor.x - grab_x),
                      gy \in offset_positions(ny, seat_cursor.y - grab_y) :
                        geo' = [geo EXCEPT !.x = gx, !.y = gy]
    /\ UNCHANGED <<grab_mode, grab_x, grab_y, seat_cursor>>
    /\ UNCHANGED AnchorFrame

AnchorNext == CallAnchorToCursor

SpecAnchor == AnchorInit /\ [][AnchorNext]_vars

(***************************************************************************)
(* Snap-edge detection: edge_from_cursor                                   *)
(***************************************************************************)

\* wlr_output_layout_output_coords: global to output-local coordinates.
output_coords(o, c) == [x |-> c.x - o.lx, y |-> c.y - o.ly]

\* A slip that tests the top and bottom margins before left and right.
edge_of_margins_vertical_first(area, c, snap_range, top_maximize) ==
    IF c.y <= area.y + snap_range
    THEN IF top_maximize THEN "VIEW_EDGE_CENTER" ELSE "VIEW_EDGE_UP"
    ELSE IF c.y >= area.y + area.height - snap_range THEN "VIEW_EDGE_DOWN"
    ELSE IF c.x <= area.x + snap_range THEN "VIEW_EDGE_LEFT"
    ELSE IF c.x >= area.x + area.width - snap_range THEN "VIEW_EDGE_RIGHT"
    ELSE "VIEW_EDGE_INVALID"

\* The margin chain of lines 80-96 on output-local coordinates.
edge_of_margins(area, c, snap_range, top_maximize) ==
    IF c.x <= area.x + snap_range THEN "VIEW_EDGE_LEFT"
    ELSE IF c.x >= area.x + area.width - snap_range THEN "VIEW_EDGE_RIGHT"
    ELSE IF c.y <= area.y + snap_range
    THEN IF top_maximize THEN "VIEW_EDGE_CENTER" ELSE "VIEW_EDGE_UP"
    ELSE IF c.y >= area.y + area.height - snap_range THEN "VIEW_EDGE_DOWN"
    ELSE "VIEW_EDGE_INVALID"

\* edge_from_cursor: the edge returned and the caller's output slot after.
edge_from_cursor(floating, snap_range, top_maximize, o, c, dest) ==
    IF ~floating THEN [edge |-> "VIEW_EDGE_INVALID", dest_output |-> dest]
    ELSE IF snap_range = 0
    THEN [edge |-> "VIEW_EDGE_INVALID", dest_output |-> dest]
    ELSE IF ~o.usable
    THEN [edge |-> "VIEW_EDGE_INVALID", dest_output |-> dest]
    ELSE [edge |-> edge_of_margins(o.usable_area, output_coords(o, c),
                                   snap_range, top_maximize),
          dest_output |-> "output"]

UsableAreas ==
    { [x |-> 0, y |-> 0, width |-> 1000, height |-> 800],
      [x |-> 2, y |-> 1, width |-> 8, height |-> 7] }

SnapRanges == {0, 2, 10}

\* Output-local coordinates on both sides of each margin of an extent.
MarginCoords(pos, extent) ==
    UNION { { pos + r - 5, pos + r, pos + r + 1,
              pos + extent - r - 1, pos + extent - r, pos + extent - r + 5 }
            : r \in SnapRanges \ {0} }
        \cup { pos + extent \div 2 }

\* A grab in progress: any configuration, an output at either layout
\* position, the cursor near or away from each margin of its usable area.
EdgeInit ==
    /\ grabbed_floating \in BOOLEAN
    /\ snap_edge_range \in SnapRanges
    /\ snap_top_maximize \in BOOLEAN
    /\ \E area \in UsableAreas, lx \in {0, 1920}, usable \in BOOLEAN :
         /\ output = [usable |-> usable, lx |-> lx, ly |-> 0,
                      usable_area |-> area]
         /\ \E x \in MarginCoords(area.x, area.width),
               y \in MarginCoords(area.y, area.height) :
                edge_cursor = [x |-> x + lx, y |-> y]
    /\ dest_output = NULL
    /\ edge_op = "none"
    /\ edge_result = "VIEW_EDGE_INVALID"
    /\ EdgeRest

\* One call edge_from_cursor(seat, &dest_output).
CallEdgeFromCursor ==
    /\ edge_op = "none"
    /\ edge_op' = "edge_from_cursor"
    /\ LET r == edge_from_cursor(grabbed_floating, snap_edge_range,
                                 snap_top_maximize, output, edge_cursor,
                                 dest_output)
       IN  /\ edge_result' = r.edge
           /\ dest_output' = r.dest_output
    /\ UNCHANGED <<grabbed_floating, snap_edge_range, snap_top_maximize,
                   output, edge_cursor>>
    /\ UNCHANGED EdgeFrame

EdgeNext == CallEdgeFromCursor

SpecEdge == EdgeInit /\ [][EdgeNext]_vars

(***************************************************************************)
(* Window cycling: osd.c                                                   *)
(***************************************************************************)

\* ---- lists

IndexOf(seq, x) == CHOOSE i \in 1..Len(seq) : seq[i] = x
InSeq(seq, x) == \E i \in 1..Len(seq) : seq[i] = x
Without(seq, x) == SelectSeq(seq, LAMBDA e : e # x)
Reverse(seq) == [i \in 1..Len(seq) |-> seq[Len(seq) + 1 - i]]

\* seq with x inserted right after position i (0: at the front).
InsertAt(seq, i, x) == SubSeq(seq, 1, i) \o <<x>> \o SubSeq(seq, i + 1, Len(seq))

\* ---- view list iteration (view.c)

\* The elements visited from `from` going forward around the ring, the
\* list head skipped: the rest of the list, then its start up to `from`.
\* From the head (no `from`) it is the whole list.
ring_after(list, from) ==
    IF from = NULL THEN list
    ELSE LET i == IndexOf(list, from)
         IN  SubSeq(list, i + 1, Len(list)) \o SubSeq(list, 1, i - 1)

\* The first view of a visit order that matches, else `from`.
first_match(order, m, from) ==
    LET hits == SelectSeq(order, LAMBDA v : m[v])
    IN  IF Len(hits) > 0 THEN hits[1] ELSE from

view_next_no_head_stop(list, from, m) ==
    first_match(ring_after(list, from), m, from)

view_prev_no_head_stop(list, from, m) ==
    first_match(Reverse(ring_after(list, from)), m, from)

\* ---- get_next_cycle_view

iter(forwards, list, from, m) ==
    IF forwards THEN view_next_no_head_stop(list, from, m)
    ELSE view_prev_no_head_stop(list, from, m)

\* A slip that omits the first step from the list head.
get_next_cycle_view_no_preselect(list, m, start_view, dir) ==
    iter(dir = "LAB_CYCLE_DIR_FORWARD", list, start_view, m)

\* A slip that steps twice from the list head.
get_next_cycle_view_twice(list, m, start_view, dir) ==
    LET forwards == dir = "LAB_CYCLE_DIR_FORWARD"
        start == IF start_view = NULL /\ forwards
                 THEN iter(forwards, list, iter(forwards, list, NULL, m), m)
                 ELSE start_view
    IN  iter(forwards, list, start, m)

\* A slip that iterates forwards whatever the direction.
get_next_cycle_view_forwards_only(list, m, start_view, dir) ==
    LET forwards == TRUE
        start == IF start_view = NULL /\ forwards
                 THEN iter(forwards, list, NULL, m)
                 ELSE start_view
    IN  iter(forwards, list, start, m)

get_next_cycle_view(list, m, start_view, dir) ==
    LET forwards == dir = "LAB_CYCLE_DIR_FORWARD"
        start == IF start_view = NULL /\ forwards
                 THEN iter(forwards, list, NULL, m)
                 ELSE start_view
    IN  iter(forwards, list, start, m)

\* ---- scene graph (wlroots, common/scene-helpers.c)

\* The tree holding a node, or NULL for a destroyed node.
parent_of(sc, node) ==
    IF InSeq(sc.view_tree, node) THEN "view_tree"
    ELSE IF InSeq(sc.ontop_tree, node) THEN "ontop_tree"
    ELSE NULL

detach(sc, node) ==
    [sc EXCEPT !.view_tree = Without(@, node), !.ontop_tree = Without(@, node)]

\* wlr_scene_node_reparent: to the top of the new parent; touching a
\* destroyed node is a fault.
wlr_scene_node_reparent(sc, node, parent) ==
    IF parent_of(sc, node) = NULL \/ parent = NULL
    THEN [sc EXCEPT !.fault = TRUE]
    ELSE IF parent_of(sc, node) = parent THEN sc
    ELSE LET d == detach(sc, node)
         IN  [d EXCEPT ![parent] = Append(@, node)]

\* wlr_scene_node_place_above: right above a sibling of the same parent.
wlr_scene_node_place_above(sc, node, sibling) ==
    LET p == parent_of(sc, node)
    IN  IF p = NULL \/ parent_of(sc, sibling) # p \/ node = sibling
        THEN [sc EXCEPT !.fault = TRUE]
        ELSE LET rest == Without(sc[p], node)
             IN  [sc EXCEPT ![p] = InsertAt(rest, IndexOf(rest, sibling), node)]

wlr_scene_node_lower_to_bottom(sc, node) ==
    LET p == parent_of(sc, node)
    IN  IF p = NULL THEN [sc EXCEPT !.fault = TRUE]
        ELSE [sc EXCEPT ![p] = <<node>> \o Without(sc[p], node)]

wlr_scene_node_raise_to_top(sc, node) ==
    LET p == parent_of(sc, node)
    IN  IF p = NULL THEN [sc EXCEPT !.fault = TRUE]
        ELSE [sc EXCEPT ![p] = Append(Without(sc[p], node), node)]

wlr_scene_node_set_enabled(sc, node, value) ==
    IF parent_of(sc, node) = NULL THEN [sc EXCEPT !.fault = TRUE]
    ELSE [sc EXCEPT !.enabled[node] = value]

\* The sibling right below a node, or NULL for the bottom one.
lab_wlr_scene_get_prev_node(sc, node) ==
    LET p == parent_of(sc, node)
    IN  IF p = NULL THEN NULL
        ELSE LET i == IndexOf(sc[p], node)
             IN  IF i = 1 THEN NULL ELSE sc[p][i - 1]

\* ---- focus override (seat.c)

\* seat_focus_override_begin: enter the mode with focus overridden.
seat_focus_override_begin(mode) == [input_mode |-> mode, focus_override |-> TRUE]

\* seat_focus_override_end: back to passthrough, focus restored.
seat_focus_override_end ==
    [input_mode |-> "LAB_INPUT_STATE_PASSTHROUGH", focus_override |-> FALSE]

\* ---- osd.c operations; each yields the state after it as a record

\* A slip that ignores the anchor and always lowers the node to the bottom.
restore_preview_node_to_bottom(os, sc) ==
    IF os.preview_node # NULL
    THEN LET s1 == wlr_scene_node_reparent(sc, os.preview_node,
                                           os.preview_parent)
             s2 == wlr_scene_node_lower_to_bottom(s1, os.preview_node)
             s3 == IF ~os.preview_was_enabled
                   THEN wlr_scene_node_set_enabled(s2, os.preview_node, FALSE)
                   ELSE s2
         IN  [ osd_state |-> [os EXCEPT !.preview_node = NULL,
                                        !.preview_parent = NULL,
                                        !.preview_anchor = NULL],
               scene |-> s3 ]
    ELSE [osd_state |-> os, scene |-> sc]

\* restore_preview_node.
restore_preview_node(os, sc) ==
    IF os.preview_node # NULL
    THEN LET s1 == wlr_scene_node_reparent(sc, os.preview_node,
                                           os.preview_parent)
             s2 == IF os.preview_anchor # NULL
                   THEN wlr_scene_node_place_above(s1, os.preview_node,
                                                   os.preview_anchor)
                   ELSE wlr_scene_node_lower_to_bottom(s1, os.preview_node)
             s3 == IF ~os.preview_was_enabled
                   THEN wlr_scene_node_set_enabled(s2, os.preview_node, FALSE)
                   ELSE s2
         IN  [ osd_state |-> [os EXCEPT !.preview_node = NULL,
                                        !.preview_parent = NULL,
                                        !.preview_anchor = NULL],
               scene |-> s3 ]
    ELSE [osd_state |-> os, scene |-> sc]

\* A slip that forgets to destroy the outline.
osd_finish_keep_outline(os, sc) ==
    LET r == restore_preview_node(os, sc)
        e == seat_focus_override_end
    IN  [ osd_state |-> [r.osd_state EXCEPT !.preview_node = NULL,
                                            !.preview_anchor = NULL,
                                            !.cycle_view = NULL],
          scene |-> r.scene,
          input_mode |-> e.input_mode,
          focus_override |-> e.focus_override ]

\* osd_finish.
osd_finish(os, sc) ==
    LET r == restore_preview_node(os, sc)
        e == seat_focus_override_end
    IN  [ osd_state |-> [r.osd_state EXCEPT !.preview_node = NULL,
                                            !.preview_anchor = NULL,
                                            !.cycle_view = NULL,
                                            !.preview_outline = NULL],
          scene |-> r.scene,
          input_mode |-> e.input_mode,
          focus_override |-> e.focus_override ]

\* The state as it is, in the shape the operations yield.
unchanged_state(os, sc, mode, fo) ==
    [osd_state |-> os, scene |-> sc, input_mode |-> mode, focus_override |-> fo]

\* A slip that begins a session whatever the input mode.
osd_begin_any_mode(list, m, os, sc, mode, fo, dir) ==
    LET o == seat_focus_override_begin("LAB_INPUT_STATE_WINDOW_SWITCHER")
    IN  [ osd_state |-> [os EXCEPT !.cycle_view =
                            get_next_cycle_view(list, m, os.cycle_view, dir)],
          scene |-> sc,
          input_mode |-> o.input_mode,
          focus_override |-> o.focus_override ]

\* osd_begin.
osd_begin(list, m, os, sc, mode, fo, dir) ==
    IF mode # "LAB_INPUT_STATE_PASSTHROUGH"
    THEN unchanged_state(os, sc, mode, fo)
    ELSE LET o == seat_focus_override_begin(
                      "LAB_INPUT_STATE_WINDOW_SWITCHER")
         IN  [ osd_state |-> [os EXCEPT !.cycle_view =
                                 get_next_cycle_view(list, m, os.cycle_view,
                                                     dir)],
               scene |-> sc,
               input_mode |-> o.input_mode,
               focus_override |-> o.focus_override ]

\* A slip that finishes only when no replacement is found, not when the
\* backward step lands on the dying view itself.
osd_on_view_destroy_no_self_check(dying, list, m, os, sc, mode, fo) ==
    IF mode # "LAB_INPUT_STATE_WINDOW_SWITCHER"
    THEN unchanged_state(os, sc, mode, fo)
    ELSE LET next == get_next_cycle_view(list, m, os.cycle_view,
                                         "LAB_CYCLE_DIR_BACKWARD")
             os1 == [os EXCEPT !.cycle_view = next]
             r == IF os.cycle_view # dying
                  THEN unchanged_state(os, sc, mode, fo)
                  ELSE IF next = NULL
                  THEN osd_finish(os1, sc)
                  ELSE unchanged_state(os1, sc, mode, fo)
             node == dying
         IN  IF r.osd_state.preview_anchor = node
             THEN [r EXCEPT !.osd_state.preview_anchor =
                                lab_wlr_scene_get_prev_node(r.scene, node)]
             ELSE r

\* osd_on_view_destroy.
osd_on_view_destroy(dying, list, m, os, sc, mode, fo) ==
    IF mode # "LAB_INPUT_STATE_WINDOW_SWITCHER"
    THEN unchanged_state(os, sc, mode, fo)
    ELSE LET next == get_next_cycle_view(list, m, os.cycle_view,
                                         "LAB_CYCLE_DIR_BACKWARD")
             os1 == [os EXCEPT !.cycle_view = next]
             r == IF os.cycle_view # dying
                  THEN unchanged_state(os, sc, mode, fo)
                  ELSE IF next = dying \/ next = NULL
                  THEN osd_finish(os1, sc)
                  ELSE unchanged_state(os1, sc, mode, fo)
             node == dying
         IN  IF r.osd_state.preview_anchor = node
             THEN [r EXCEPT !.osd_state.preview_anchor =
                                lab_wlr_scene_get_prev_node(r.scene, node)]
             ELSE r

\* The preview of the selected view: the previous preview is put back,
\* the node's parent, the sibling below it and its enabled flag are
\* recorded, and the node is enabled and raised into the preview tree;
\* the outline is created with it.
preview_selected_view(selected, os, sc) ==
    LET r == restore_preview_node(os, sc)
        node == selected
        os1 == [r.osd_state EXCEPT
                   !.preview_node = node,
                   !.preview_parent = parent_of(r.scene, node),
                   !.preview_anchor = lab_wlr_scene_get_prev_node(r.scene, node),
                   !.preview_was_enabled = r.scene.enabled[node],
                   !.preview_outline = "outline"]
        s1 == IF ~os1.preview_was_enabled
              THEN wlr_scene_node_set_enabled(r.scene, node, TRUE)
              ELSE r.scene
        s2 == wlr_scene_node_reparent(s1, node, "ontop_tree")
        s3 == wlr_scene_node_raise_to_top(s2, node)
    IN  [osd_state |-> os1, scene |-> s3]

\* ---- interactive sessions (interactive.c)

\* overlay_hide: the snap overlay is no longer shown.
overlay_hide(ov) == FALSE

\* One collaborator invoked by interactive_cancel, with
\* server->grabbed_view as it was when the collaborator was entered.
Call(name, gv) == [call |-> name, grabbed_view |-> gv]

\* The state as it is, in the shape interactive_cancel yields.
unchanged_grab(gv, ov, mode, fo) ==
    [ grabbed_view |-> gv, overlay |-> ov, input_mode |-> mode,
      focus_override |-> fo, calls |-> <<>> ]

\* A slip that drops the check for the grabbed view.
interactive_cancel_any_view(v, gv, ov, mode, fo) ==
    LET ov1 == overlay_hide(ov)
        c1 == <<Call("overlay_hide", gv)>>
        gv2 == NULL
        e == seat_focus_override_end
        c3 == Append(c1, Call("seat_focus_override_end", gv2))
    IN  [ grabbed_view |-> gv2, overlay |-> ov1,
          input_mode |-> e.input_mode, focus_override |-> e.focus_override,
          calls |-> c3 ]

\* A slip that does not end the focus override.
interactive_cancel_keep_override(v, gv, ov, mode, fo) ==
    IF gv # v
    THEN unchanged_grab(gv, ov, mode, fo)
    ELSE LET ov1 == overlay_hide(ov)
             c1 == <<Call("overlay_hide", gv)>>
             gv2 == NULL
         IN  [ grabbed_view |-> gv2, overlay |-> ov1,
               input_mode |-> mode, focus_override |-> fo,
               calls |-> c1 ]

\* A slip that ends the focus override before clearing the grabbed view.
interactive_cancel_end_first(v, gv, ov, mode, fo) ==
    IF gv # v
    THEN unchanged_grab(gv, ov, mode, fo)
    ELSE LET ov1 == overlay_hide(ov)
             c1 == <<Call("overlay_hide", gv)>>
             e == seat_focus_override_end
             c2 == Append(c1, Call("seat_focus_override_end", gv))
             gv3 == NULL
         IN  [ grabbed_view |-> gv3, overlay |-> ov1,
               input_mode |-> e.input_mode,
               focus_override |-> e.focus_override,
               calls |-> c2 ]

\* interactive_cancel(view): statement by statement, overlay_hide, then
\* grabbed_view = NULL, then seat_focus_override_end.
interactive_cancel(v, gv, ov, mode, fo) ==
    IF gv # v
    THEN unchanged_grab(gv, ov, mode, fo)
    ELSE LET ov1 == overlay_hide(ov)
             c1 == <<Call("overlay_hide", gv)>>
             gv2 == NULL
             e == seat_focus_override_end
             c3 == Append(c1, Call("seat_focus_override_end", gv2))
         IN  [ grabbed_view |-> gv2, overlay |-> ov1,
               input_mode |-> e.input_mode,
               focus_override |-> e.focus_override,
               calls |-> c3 ]

\* ---- actions

\* What the last operation found, for the claims that relate before and
\* after.
Found(op, dir, arg) ==
    [ op |-> op, dir |-> dir, view |-> arg,
      below |-> IF arg = NULL THEN NULL
                ELSE lab_wlr_scene_get_prev_node(scene, arg),
      before |-> [ cycle_view |-> osd_state.cycle_view,
                   input_mode |-> input_mode,
                   preview_node |-> osd_state.preview_node,
                   preview_was_enabled |-> osd_state.preview_was_enabled,
                   preview_anchor |-> osd_state.preview_anchor,
                   focus_override |-> focus_override,
                   grabbed_view |-> grabbed_view,
                   overlay |-> overlay ] ]

CycleDirs == {"LAB_CYCLE_DIR_FORWARD", "LAB_CYCLE_DIR_BACKWARD"}

\* The input modes of a grab.
GrabModes == {"LAB_INPUT_STATE_MOVE", "LAB_INPUT_STATE_RESIZE"}

\* Up to MaxViews views stacked W1 topmost, the scene in the same order,
\* any of them matching the criteria, any of them minimized; no session.
CycleInit ==
    /\ \E n \in 0..MaxViews : views = SubSeq(ViewNames, 1, n)
    /\ matches \in [AllViews -> BOOLEAN]
    /\ \E en \in [AllViews -> BOOLEAN] :
         scene = [view_tree |-> Reverse(views), ontop_tree |-> <<>>,
                  enabled |-> en, fault |-> FALSE]
    /\ \A v \in AllViews : InSeq(views, v) \/ (~matches[v] /\ ~scene.enabled[v])
    /\ input_mode = "LAB_INPUT_STATE_PASSTHROUGH"
    /\ focus_override = FALSE
    /\ osd_state = NoOsdState
    /\ cycle_last = NoCycleOp
    /\ grabbed_view = NULL
    /\ overlay = FALSE
    /\ cancel_calls = <<>>
    /\ CycleRest

\* osd_begin(server, direction).
OsdBegin ==
    \E dir \in CycleDirs :
        /\ cycle_last' = Found("osd_begin", dir, NULL)
        /\ LET r == osd_begin(views, matches, osd_state, scene, input_mode,
                              focus_override, dir)
           IN  /\ osd_state' = r.osd_state
               /\ input_mode' = r.input_mode
               /\ focus_override' = r.focus_override
        /\ UNCHANGED <<views, matches, scene>>
        /\ UNCHANGED <<grabbed_view, overlay, cancel_calls>>
        /\ UNCHANGED CycleFrame

\* osd_cycle(server, direction); the assertion is its precondition.
OsdCycle ==
    \E dir \in CycleDirs :
        /\ input_mode = "LAB_INPUT_STATE_WINDOW_SWITCHER"
        /\ cycle_last' = Found("osd_cycle", dir, NULL)
        /\ osd_state' =
              [osd_state EXCEPT !.cycle_view =
                  get_next_cycle_view(views, matches, osd_state.cycle_view, dir)]
        /\ UNCHANGED <<views, matches, scene, input_mode, focus_override>>
        /\ UNCHANGED <<grabbed_view, overlay, cancel_calls>>
        /\ UNCHANGED CycleFrame

\* osd_finish(server), called by the switcher or with no session at all,
\* never in the middle of a grab.
OsdFinish ==
    LET r == osd_finish(osd_state, scene)
    IN  /\ input_mode \notin GrabModes
        /\ cycle_last' = Found("osd_finish", "none", NULL)
        /\ osd_state' = r.osd_state
        /\ scene' = r.scene
        /\ input_mode' = r.input_mode
        /\ focus_override' = r.focus_override
        /\ UNCHANGED <<views, matches>>
        /\ UNCHANGED <<grabbed_view, overlay, cancel_calls>>
        /\ UNCHANGED CycleFrame

\* The switcher previews its selection.
OsdPreview ==
    /\ input_mode = "LAB_INPUT_STATE_WINDOW_SWITCHER"
    /\ osd_state.cycle_view # NULL
    /\ ~scene.fault
    /\ LET r == preview_selected_view(osd_state.cycle_view, osd_state, scene)
       IN  /\ osd_state' = r.osd_state
           /\ scene' = r.scene
    /\ cycle_last' = Found("preview", "none", osd_state.cycle_view)
    /\ UNCHANGED <<views, matches, input_mode, focus_override>>
    /\ UNCHANGED <<grabbed_view, overlay, cancel_calls>>
    /\ UNCHANGED CycleFrame

\* A view is destroyed: osd_on_view_destroy(view) is notified while the
\* view is still listed, then the view leaves the list and the scene.  A
\* grab on the view is cancelled (InteractiveCancel) before this.
ViewDestroy ==
    \E v \in AllViews :
        /\ InSeq(views, v)
        /\ grabbed_view # v
        /\ LET r == osd_on_view_destroy(v, views, matches, osd_state, scene,
                                        input_mode, focus_override)
           IN  /\ osd_state' = r.osd_state
               /\ scene' = detach(r.scene, v)
               /\ input_mode' = r.input_mode
               /\ focus_override' = r.focus_override
        /\ cycle_last' = Found("osd_on_view_destroy", "none", v)
        /\ views' = Without(views, v)
        /\ UNCHANGED matches
        /\ UNCHANGED <<grabbed_view, overlay, cancel_calls>>
        /\ UNCHANGED CycleFrame

\* A move or resize grab begins on a listed view: allowed from
\* PASSTHROUGH only; the view becomes the grabbed view and the focus is
\* overridden for the mode.
InteractiveBegin ==
    \E v \in AllViews, mode \in GrabModes :
        /\ InSeq(views, v)
        /\ cycle_last' = Found("interactive_begin", mode, v)
        /\ IF input_mode # "LAB_INPUT_STATE_PASSTHROUGH"
           THEN UNCHANGED <<grabbed_view, input_mode, focus_override>>
           ELSE LET o == seat_focus_override_begin(mode)
                IN  /\ grabbed_view' = v
                    /\ input_mode' = o.input_mode
                    /\ focus_override' = o.focus_override
        /\ UNCHANGED <<views, matches, scene, osd_state, overlay, cancel_calls>>
        /\ UNCHANGED CycleFrame

\* While a view is moved, the snap overlay is shown.
OverlayShow ==
    /\ input_mode = "LAB_INPUT_STATE_MOVE"
    /\ grabbed_view # NULL
    /\ ~overlay
    /\ overlay' = TRUE
    /\ cycle_last' = Found("overlay_show", "none", grabbed_view)
    /\ UNCHANGED <<views, matches, scene, input_mode, focus_override,
                   osd_state, grabbed_view, cancel_calls>>
    /\ UNCHANGED CycleFrame

\* interactive_cancel(view) for a listed view.
InteractiveCancel ==
    \E v \in AllViews :
        /\ InSeq(views, v)
        /\ LET r == interactive_cancel(v, grabbed_view, overlay, input_mode,
                                       focus_override)
           IN  /\ grabbed_view' = r.grabbed_view
               /\ overlay' = r.overlay
               /\ input_mode' = r.input_mode
               /\ focus_override' = r.focus_override
               /\ cancel_calls' = r.calls
        /\ cycle_last' = Found("interactive_cancel", "none", v)
        /\ UNCHANGED <<views, matches, scene, osd_state>>
        /\ UNCHANGED CycleFrame

CycleNext ==
    \/ OsdBegin
    \/ OsdCycle
    \/ OsdFinish
    \/ OsdPreview
    \/ ViewDestroy

SpecCycle == CycleInit /\ [][CycleNext]_vars

\* Grabs and the switcher together: the same views with no view
\* minimized, and every operation that begins or ends a session.
SessionInit ==
    /\ CycleInit
    /\ \A v \in AllViews : scene.enabled[v] = InSeq(views, v)

SessionNext ==
    \/ OsdBegin
    \/ OsdCycle
    \/ OsdFinish
    \/ ViewDestroy
    \/ InteractiveBegin
    \/ OverlayShow
    \/ InteractiveCancel

SpecSession == SessionInit /\ [][SessionNext]_vars

(***************************************************************************)
(* Workspaces: add_workspace, get_prev, get_next, workspaces_init,         *)
(* workspaces_switch_to, workspaces_find, destroy_workspace,               *)
(* workspaces_reconfigure                                                  *)
(***************************************************************************)

\* Names a configuration may give its workspaces, in order.
WorkspaceNames == <<"Alpha", "Beta", "Gamma", "Delta", "Epsilon", "Zeta">>

\* rc.workspace_config.workspaces: one to MaxWorkspaces names, taken from
\* the name table at its start or one place further on.
Configs ==
    { [i \in 1..n |-> WorkspaceNames[i + k]] :
        n \in 1..MaxWorkspaces, k \in {0, 1} }

\* The addresses an allocation may return: the lowest or the highest
\* free one.
malloc(free) ==
    { id \in free : \A o \in free : id <= o }
        \cup { id \in free : \A o \in free : id >= o }

\* The addresses n successive allocations may return.
RECURSIVE Addresses(_, _)
Addresses(free, n) ==
    IF n = 0 THEN {<<>>}
    ELSE UNION { { <<id>> \o rest : rest \in Addresses(free \ {id}, n - 1) } :
                 id \in malloc(free) }

\* The members of a list, as a set.
Members(list) == { list[i] : i \in 1..Len(list) }

\* link->next and link->prev in the circular list whose head is ListHead.
wl_next(list, link) ==
    IF link = ListHead
    THEN IF list = <<>> THEN ListHead ELSE list[1]
    ELSE IF IndexOf(list, link) = Len(list) THEN ListHead
         ELSE list[IndexOf(list, link) + 1]

wl_prev(list, link) ==
    IF link = ListHead
    THEN IF list = <<>> THEN ListHead ELSE list[Len(list)]
    ELSE IF IndexOf(list, link) = 1 THEN ListHead
         ELSE list[IndexOf(list, link) - 1]

\* wl_list_remove on a member of the list.
wl_list_remove(list, link) ==
    SubSeq(list, 1, IndexOf(list, link) - 1)
        \o SubSeq(list, IndexOf(list, link) + 1, Len(list))

\* add_workspace(server, name), the new object allocated at address id:
\* appended to the list; the first one becomes current and keeps its new
\* tree enabled, a later one has its tree disabled; the protocol objects
\* are active exactly for the current workspace.
add_workspace(s, id, name) ==
    LET first == s.workspaces.current = NoWorkspace
    IN  [ s EXCEPT
            !.workspaces.all = Append(@, id),
            !.workspaces.current = IF first THEN id ELSE @,
            !.heap[id] = [live |-> TRUE, name |-> name,
                          enabled |-> first, active |-> first] ]

\* get_prev(current, workspaces, wrap).
get_prev(current, list, wrap) ==
    LET target_link == wl_prev(list, current)
    IN  IF target_link = ListHead
        THEN IF ~wrap THEN NoWorkspace ELSE wl_prev(list, target_link)
        ELSE target_link

\* A slip that returns the list head where it should roll over.
get_next_to_head(current, list, wrap) ==
    wl_next(list, current)

\* get_next(current, workspaces, wrap).
get_next(current, list, wrap) ==
    LET target_link == wl_next(list, current)
    IN  IF target_link = ListHead
        THEN IF ~wrap THEN NoWorkspace ELSE wl_next(list, target_link)
        ELSE target_link

\* workspaces_init: add_workspace for each configured name in order, the
\* objects allocated at the addresses ids.
RECURSIVE workspaces_init(_, _, _)
workspaces_init(s, conf, ids) ==
    IF conf = <<>> THEN s
    ELSE workspaces_init(add_workspace(s, Head(ids), Head(conf)),
                         Tail(conf), Tail(ids))

\* view_move_to_workspace(view, workspace).
view_move_to_workspace(s, v, workspace) ==
    [s EXCEPT !.views[v].workspace = workspace]

\* The views the loop of workspaces_switch_to moves: those on the current
\* workspace that are visible on all workspaces.
omnipresent_on_current(s) ==
    { v \in WsViews :
        /\ s.views[v].exists
        /\ s.views[v].workspace = s.workspaces.current
        /\ s.views[v].visible_on_all_workspaces }

\* view_move_to_workspace applied to each view of a set.
RECURSIVE move_views(_, _, _)
move_views(s, vs, workspace) ==
    IF vs = {} THEN s
    ELSE LET v == CHOOSE x \in vs : TRUE
         IN  move_views(view_move_to_workspace(s, v, workspace),
                        vs \ {v}, workspace)

\* A slip that leaves the tree of the old workspace enabled.
workspaces_switch_to_keep_old(s, target) ==
    IF target = s.workspaces.current THEN s
    ELSE LET old == s.workspaces.current
             moved == move_views(s, omnipresent_on_current(s), target)
         IN  [ moved EXCEPT
                 !.heap[old].active = FALSE,
                 !.heap[target].enabled = TRUE,
                 !.workspaces.last = old,
                 !.workspaces.current = target,
                 !.heap[target].active = TRUE ]

\* workspaces_switch_to(target, update_focus): nothing when target is
\* current; else disable the old tree, deactivate its protocol objects,
\* move the omnipresent views, enable the target tree, save last, set
\* current and activate the target's protocol objects.
workspaces_switch_to(s, target) ==
    IF target = s.workspaces.current THEN s
    ELSE LET old == s.workspaces.current
             disabled == [ s EXCEPT !.heap[old].enabled = FALSE,
                                    !.heap[old].active = FALSE ]
             moved == move_views(disabled, omnipresent_on_current(disabled),
                                 target)
         IN  [ moved EXCEPT
                 !.heap[target].enabled = TRUE,
                 !.workspaces.last = old,
                 !.workspaces.current = target,
                 !.heap[target].active = TRUE ]

\* The decimal strings parse_workspace_index accepts; anything else
\* ("0", "-50", "2nd desktop", a word) gives 0.
Decimals == <<"1", "2", "3", "4", "5", "6", "7", "8", "9">>

parse_workspace_index(name) ==
    IF \E i \in 1..Len(Decimals) : Decimals[i] = name
    THEN CHOOSE i \in 1..Len(Decimals) : Decimals[i] = name
    ELSE 0

\* The strings in use that contain capital letters, with their lower case.
Capitalised ==
    { <<"Alpha", "alpha">>, <<"Beta", "beta">>, <<"Gamma", "gamma">>,
      <<"Delta", "delta">>, <<"Epsilon", "epsilon">>, <<"Zeta", "zeta">>,
      <<"Right", "right">>, <<"LEFT", "left">>, <<"LAST", "last">>,
      <<"Current", "current">> }

tolower(name) ==
    IF \E p \in Capitalised : p[1] = name
    THEN (CHOOSE p \in Capitalised : p[1] = name)[2]
    ELSE name

\* strcasecmp(a, b) == 0.
strcasecmp_equal(a, b) == tolower(a) = tolower(b)

\* The first workspace of the list from position i on whose name matches.
RECURSIVE find_by_name(_, _, _)
find_by_name(s, name, i) ==
    IF i > Len(s.workspaces.all) THEN NoWorkspace
    ELSE IF strcasecmp_equal(s.heap[s.workspaces.all[i]].name, name)
         THEN s.workspaces.all[i]
         ELSE find_by_name(s, name, i + 1)

\* workspaces_find(anchor, name, wrap).
workspaces_find(s, anchor, name, wrap) ==
    LET all == s.workspaces.all
        wants_index == parse_workspace_index(name)
    IN  IF name = NULL THEN NoWorkspace
        ELSE IF wants_index # 0
             THEN IF wants_index <= Len(all) THEN all[wants_index]
                  ELSE NoWorkspace
        ELSE IF strcasecmp_equal(name, "current") THEN anchor
        ELSE IF strcasecmp_equal(name, "last") THEN s.workspaces.last
        ELSE IF strcasecmp_equal(name, "left") THEN get_prev(anchor, all, wrap)
        ELSE IF strcasecmp_equal(name, "right") THEN get_next(anchor, all, wrap)
        ELSE find_by_name(s, name, 1)

\* destroy_workspace(workspace): the tree is destroyed, the object is
\* unlinked and freed.
destroy_workspace(s, workspace) ==
    [ s EXCEPT !.workspaces.all = wl_list_remove(@, workspace),
               !.heap[workspace] = Freed ]

\* The first loop of workspaces_reconfigure from the i-th configured name
\* on, actual_workspace_link at link: past the end of the list a workspace
\* is added (at the next address of fresh), else the workspace at the link
\* is renamed when its name differs and the link advances. Gives the
\* state and the link the loop ends with.
RECURSIVE configure_each(_, _, _, _, _)
configure_each(s, conf, i, link, fresh) ==
    IF i > Len(conf) THEN [s |-> s, link |-> link]
    ELSE IF link = ListHead
         THEN configure_each(add_workspace(s, Head(fresh), conf[i]),
                             conf, i + 1, link, Tail(fresh))
         ELSE LET renamed ==
                      IF s.heap[link].name # conf[i]
                      THEN [s EXCEPT !.heap[link].name = conf[i]]
                      ELSE s
              IN  configure_each(renamed, conf, i + 1,
                                 wl_next(s.workspaces.all, link), fresh)

\* The views whose workspace is the given one.
views_on(s, workspace) ==
    { v \in WsViews : s.views[v].exists /\ s.views[v].workspace = workspace }

\* The second loop of workspaces_reconfigure from link on: the views of
\* the workspace move to the first workspace, a current workspace is
\* switched away from, a last workspace is replaced by the first, and the
\* workspace is destroyed after the link has advanced.
RECURSIVE destroy_surplus(_, _, _)
destroy_surplus(s, link, first_workspace) ==
    IF link = ListHead THEN s
    ELSE LET moved == move_views(s, views_on(s, link), first_workspace)
             switched == IF moved.workspaces.current = link
                         THEN workspaces_switch_to(moved, first_workspace)
                         ELSE moved
             relinked == IF switched.workspaces.last = link
                         THEN [switched EXCEPT !.workspaces.last = first_workspace]
                         ELSE switched
             next == wl_next(relinked.workspaces.all, link)
         IN  destroy_surplus(destroy_workspace(relinked, link), next,
                             first_workspace)

\* A slip that leaves the surplus workspaces in place.
workspaces_reconfigure_keep_surplus(s, conf, fresh) ==
    configure_each(s, conf, 1, wl_next(s.workspaces.all, ListHead), fresh).s

\* workspaces_reconfigure(server) under the configuration conf.
workspaces_reconfigure(s, conf, fresh) ==
    LET r == configure_each(s, conf, 1, wl_next(s.workspaces.all, ListHead),
                            fresh)
    IN  IF r.link = ListHead THEN r.s
        ELSE destroy_surplus(r.s, r.link,
                             wl_next(r.s.workspaces.all, ListHead))

\* The names workspaces_find is asked for.
FindNames ==
    { NULL, "left", "LEFT", "right", "Right", "current", "LAST",
      "2", "0", "-50", "9", "beta", "Gamma", "nowhere" }

\* The workspace state as one value.
Server == [workspaces |-> workspaces, heap |-> ws_heap, views |-> ws_views]

SetServer(s) ==
    /\ workspaces' = s.workspaces
    /\ ws_heap' = s.heap
    /\ ws_views' = s.views

\* Before workspaces_init: a configuration is loaded, nothing exists.
WsInit ==
    /\ rc_workspaces \in Configs
    /\ workspaces = NoWorkspaces.workspaces
    /\ ws_heap = NoWorkspaces.heap
    /\ ws_views = NoWorkspaces.views
    /\ ws_call = NoWsCall
    /\ find_call = NoFind
    /\ WsRest

\* A call that is not a workspace operation, of which no state is kept.
OtherCall(op) == [NoWsCall EXCEPT !.op = op]

\* workspaces_init(server), once, the objects at any distinct addresses.
WorkspacesInit ==
    /\ ws_call.op = "none"
    /\ \E ids \in Addresses(WorkspaceIds, Len(rc_workspaces)) :
          SetServer(workspaces_init(Server, rc_workspaces, ids))
    /\ ws_call' = OtherCall("workspaces_init")
    /\ UNCHANGED <<rc_workspaces, find_call>>
    /\ UNCHANGED WsFrame

\* workspaces_switch_to(target, update_focus) for a workspace of the list;
\* update_focus only decides whether the focus is recomputed.
WorkspacesSwitchTo ==
    /\ workspaces.current # NoWorkspace
    /\ \E target \in Members(workspaces.all) :
          /\ SetServer(workspaces_switch_to(Server, target))
          /\ ws_call' = [NoWsCall EXCEPT !.op = "workspaces_switch_to",
                                          !.target = target,
                                          !.old_current = workspaces.current]
    /\ UNCHANGED <<rc_workspaces, find_call>>
    /\ UNCHANGED WsFrame

\* A configuration reload followed by workspaces_reconfigure(server); new
\* objects are allocated at any free addresses. Its overlay_hide finds
\* the snap overlay hidden, as this specification keeps it.
WorkspacesReconfigure ==
    /\ workspaces.current # NoWorkspace
    /\ \E conf \in Configs :
          LET missing == IF Len(conf) > Len(workspaces.all)
                         THEN Len(conf) - Len(workspaces.all) ELSE 0
          IN  /\ rc_workspaces' = conf
              /\ \E fresh \in Addresses(WorkspaceIds \ Members(workspaces.all),
                                        missing) :
                    SetServer(workspaces_reconfigure(Server, conf, fresh))
    /\ ws_call' =
          LET destroyed == Members(workspaces.all) \ Members(workspaces'.all)
          IN  [NoWsCall EXCEPT
                 !.op = "workspaces_reconfigure",
                 !.old_current = workspaces.current,
                 !.destroyed = destroyed,
                 !.moved = { v \in WsViews : /\ ws_views[v].exists
                                             /\ ws_views[v].workspace \in destroyed }]
    /\ UNCHANGED find_call
    /\ UNCHANGED WsFrame

\* A view is created: it starts on the current workspace.
ViewInit ==
    /\ workspaces.current # NoWorkspace
    /\ \E v \in WsViews, omnipresent \in BOOLEAN :
          /\ ~ws_views[v].exists
          /\ ws_views' = [ws_views EXCEPT ![v] =
                 [exists |-> TRUE, workspace |-> workspaces.current,
                  visible_on_all_workspaces |-> omnipresent]]
    /\ ws_call' = OtherCall("view_init")
    /\ UNCHANGED <<rc_workspaces, workspaces, ws_heap, find_call>>
    /\ UNCHANGED WsFrame

\* A view is sent to a workspace of the list.
ViewMoveToWorkspace ==
    /\ \E v \in WsViews, target \in Members(workspaces.all) :
          /\ ws_views[v].exists
          /\ ws_views[v].workspace # target
          /\ SetServer(view_move_to_workspace(Server, v, target))
    /\ ws_call' = OtherCall("view_move_to_workspace")
    /\ UNCHANGED <<rc_workspaces, find_call>>
    /\ UNCHANGED WsFrame

WsNext ==
    \/ WorkspacesInit
    \/ WorkspacesSwitchTo
    \/ WorkspacesReconfigure
    \/ ViewInit
    \/ ViewMoveToWorkspace

SpecWorkspace == WsInit /\ [][WsNext]_vars

\* Some workspaces exist and some have been visited: the state after
\* workspaces_init and two switches.
FindInit ==
    /\ \E conf \in Configs :
          /\ rc_workspaces = conf
          /\ \E ids \in Addresses(WorkspaceIds, Len(conf)) :
                \E a \in Members(ids), b \in Members(ids) :
                    LET s == workspaces_switch_to(
                                 workspaces_switch_to(
                                     workspaces_init(NoWorkspaces, conf, ids), a),
                                 b)
                    IN  /\ workspaces = s.workspaces
                        /\ ws_heap = s.heap
                        /\ ws_views = s.views
    /\ ws_call = NoWsCall
    /\ find_call = NoFind
    /\ WsRest

\* One call workspaces_find(anchor, name, wrap) from any workspace of
\* the list.
CallWorkspacesFind ==
    /\ find_call.op = "none"
    /\ \E anchor \in Members(workspaces.all), name \in FindNames,
          wrap \in BOOLEAN :
          find_call' = [op |-> "workspaces_find", anchor |-> anchor,
                        name |-> name, wrap |-> wrap,
                        result |-> workspaces_find(Server, anchor, name, wrap)]
    /\ UNCHANGED <<rc_workspaces, workspaces, ws_heap, ws_views, ws_call>>
    /\ UNCHANGED WsFrame

FindNext == CallWorkspacesFind

SpecFind == FindInit /\ [][FindNext]_vars

(***************************************************************************)
(* Claims about the part taxonomy (checked under SpecPart)                 *)
(***************************************************************************)

Buttons ==
    { "LAB_SSD_BUTTON_CLOSE", "LAB_SSD_BUTTON_MAXIMIZE",
      "LAB_SSD_BUTTON_ICONIFY", "LAB_SSD_BUTTON_WINDOW_ICON",
      "LAB_SSD_BUTTON_OMNIPRESENT" }

Edges ==
    { "LAB_SSD_PART_TOP", "LAB_SSD_PART_RIGHT",
      "LAB_SSD_PART_BOTTOM", "LAB_SSD_PART_LEFT" }

Corners ==
    { "LAB_SSD_PART_CORNER_TOP_LEFT", "LAB_SSD_PART_CORNER_TOP_RIGHT",
      "LAB_SSD_PART_CORNER_BOTTOM_RIGHT", "LAB_SSD_PART_CORNER_BOTTOM_LEFT" }

\* The pairs a documented containment rule covers: identity, the ALL
\* wildcard, the button group, the titlebar family (buttons, titlebar,
\* title), an edge with its two adjacent corners, and the frame with
\* everything from the close button to the client area.
DocumentedPair(w, c) ==
    \/ w = c
    \/ w = "LAB_SSD_ALL"
    \/ w = "LAB_SSD_BUTTON" /\ c \in Buttons
    \/ w = "LAB_SSD_PART_TITLEBAR"
       /\ c \in Buttons \cup {"LAB_SSD_BUTTON", "LAB_SSD_PART_TITLE"}
    \/ w = "LAB_SSD_PART_TITLE" /\ c = "LAB_SSD_PART_TITLEBAR"
    \/ w = "LAB_SSD_PART_TOP"
       /\ c \in {"LAB_SSD_PART_CORNER_TOP_LEFT", "LAB_SSD_PART_CORNER_TOP_RIGHT"}
    \/ w = "LAB_SSD_PART_RIGHT"
       /\ c \in {"LAB_SSD_PART_CORNER_TOP_RIGHT",
                 "LAB_SSD_PART_CORNER_BOTTOM_RIGHT"}
    \/ w = "LAB_SSD_PART_BOTTOM"
       /\ c \in {"LAB_SSD_PART_CORNER_BOTTOM_RIGHT",
                 "LAB_SSD_PART_CORNER_BOTTOM_LEFT"}
    \/ w = "LAB_SSD_PART_LEFT"
       /\ c \in {"LAB_SSD_PART_CORNER_TOP_LEFT",
                 "LAB_SSD_PART_CORNER_BOTTOM_LEFT"}
    \/ w = "LAB_SSD_FRAME"
       /\ c \in PartTypes \ {"LAB_SSD_NONE", "LAB_SSD_FRAME", "LAB_SSD_ALL"}

\* C1: ssd_part_contains is total (a boolean for every pair), reflexive
\* (contains(A, A)), has ALL as top (contains(ALL, A)), and is false for
\* every pair that no documented containment rule covers.
C1_ContainsTotalReflexiveTop ==
    part_op = "contains" =>
        /\ part_result \in BOOLEAN
        /\ (whole = candidate => part_result = TRUE)
        /\ (whole = "LAB_SSD_ALL" => part_result = TRUE)
        /\ (~DocumentedPair(whole, candidate) => part_result = FALSE)

\* C1 witness: ALL has been asked about a different type and answered true.
C1_Witness ==
    /\ part_op = "contains"
    /\ whole = "LAB_SSD_ALL"
    /\ candidate = "LAB_SSD_PART_TOP"
    /\ part_result = TRUE

\* The expected edge mask of each of the eight edge and corner types.
ExpectedEdges(type) ==
    IF type \in Edges
    THEN { e \in {"TOP", "RIGHT", "BOTTOM", "LEFT"} :
             type = "LAB_SSD_PART_" \o e }
    ELSE IF type \in Corners
    THEN { e \in {"TOP", "RIGHT", "BOTTOM", "LEFT"} :
             \E f \in {"TOP", "RIGHT", "BOTTOM", "LEFT"} :
                \/ type = "LAB_SSD_PART_CORNER_" \o e \o "_" \o f
                \/ type = "LAB_SSD_PART_CORNER_" \o f \o "_" \o e }
    ELSE {}

\* C2: ssd_resize_edges maps each straight edge to its single bit, each
\* corner to exactly its two adjacent edge bits, and every other type to
\* the empty mask.
C2_ResizeEdgesTable ==
    part_op = "edges" =>
        /\ part_result = ExpectedEdges(whole)
        /\ (whole \in Edges => Cardinality(part_result) = 1)
        /\ (whole \in Corners => Cardinality(part_result) = 2)
        /\ (whole \notin Edges \cup Corners => part_result = {})
        /\ (whole = "LAB_SSD_PART_CORNER_TOP_LEFT"
              => part_result = {"TOP", "LEFT"})
        /\ (whole = "LAB_SSD_PART_CORNER_TOP_RIGHT"
              => part_result = {"TOP", "RIGHT"})
        /\ (whole = "LAB_SSD_PART_CORNER_BOTTOM_RIGHT"
              => part_result = {"BOTTOM", "RIGHT"})
        /\ (whole = "LAB_SSD_PART_CORNER_BOTTOM_LEFT"
              => part_result = {"BOTTOM", "LEFT"})

\* C2 witness: the top-right corner has been mapped to TOP|RIGHT.
C2_Witness ==
    /\ part_op = "edges"
    /\ whole = "LAB_SSD_PART_CORNER_TOP_RIGHT"
    /\ part_result = {"TOP", "RIGHT"}

\* C19 as claimed: contains(PART_TITLE, PART_TITLEBAR) is true and
\* contains(PART_TITLEBAR, PART_TITLE) is false.
C19_TitleTitlebarAsymmetric ==
    part_op = "contains" =>
        /\ (whole = "LAB_SSD_PART_TITLE" /\ candidate = "LAB_SSD_PART_TITLEBAR")
             => part_result = TRUE
        /\ (whole = "LAB_SSD_PART_TITLEBAR" /\ candidate = "LAB_SSD_PART_TITLE")
             => part_result = FALSE

\* C19 as amended: contains(PART_TITLE, PART_TITLEBAR) is true and
\* contains(PART_TITLEBAR, PART_TITLE) is true as well: between title and
\* titlebar the relation holds in both directions.
C19_TitleTitlebarBothWays ==
    part_op = "contains" =>
        /\ (whole = "LAB_SSD_PART_TITLE" /\ candidate = "LAB_SSD_PART_TITLEBAR")
             => part_result = TRUE
        /\ (whole = "LAB_SSD_PART_TITLEBAR" /\ candidate = "LAB_SSD_PART_TITLE")
             => part_result = TRUE

\* C19 witness: the titlebar has been asked about the title and answered
\* true.
C19_Witness ==
    /\ part_op = "contains"
    /\ whole = "LAB_SSD_PART_TITLEBAR"
    /\ candidate = "LAB_SSD_PART_TITLE"
    /\ part_result = TRUE

\* C19, the other direction: the title has been asked about the titlebar.
C19_TitleAskedReached ==
    /\ part_op = "contains"
    /\ whole = "LAB_SSD_PART_TITLE"
    /\ candidate = "LAB_SSD_PART_TITLEBAR"
    /\ part_result = TRUE

\* C20: for every straight edge E and corner C, contains(E, C) is true
\* iff the bit resize_edges(E) is set in resize_edges(C); each edge
\* contains exactly itself and its two adjacent corners and nothing else.
C20_EdgesContainAdjacentCorners ==
    (part_op = "contains" /\ whole \in Edges) =>
        /\ candidate \in Corners =>
              (part_result = TRUE
                 <=> ssd_resize_edges(whole) \subseteq ssd_resize_edges(candidate))
        /\ part_result = TRUE <=>
              \/ candidate = whole
              \/ /\ candidate \in Corners
                 /\ ssd_resize_edges(whole) \subseteq ssd_resize_edges(candidate)
        /\ Cardinality({c \in PartTypes : ssd_part_contains(whole, c)}) = 3
        /\ Cardinality(ssd_resize_edges(whole)) = 1

\* C20 witness: the right edge has been asked about the bottom-right
\* corner, whose mask has the RIGHT bit, and answered true.
C20_Witness ==
    /\ part_op = "contains"
    /\ whole = "LAB_SSD_PART_RIGHT"
    /\ candidate = "LAB_SSD_PART_CORNER_BOTTOM_RIGHT"
    /\ "RIGHT" \in ssd_resize_edges(candidate)
    /\ part_result = TRUE

\* C20, a corner that is not adjacent: the right edge has been asked about
\* the top-left corner and answered false.
C20_NotAdjacentReached ==
    /\ part_op = "contains"
    /\ whole = "LAB_SSD_PART_RIGHT"
    /\ candidate = "LAB_SSD_PART_CORNER_TOP_LEFT"
    /\ part_result = FALSE

(***************************************************************************)
(* Claims about the point classifier (checked under SpecPoint)             *)
(***************************************************************************)

\* The effective box as the description words it: the current content box
\* with the effective height, moved up and grown by the titlebar height
\* exactly when the titlebar is not hidden.
EffX == view.current.x
EffY == view.current.y - (IF view.ssd_titlebar_hidden THEN 0 ELSE TitlebarHeight)
EffWidth == view.current.width
EffHeight ==
    (IF view.shaded THEN 0 ELSE view.current.height)
        + (IF view.ssd_titlebar_hidden THEN 0 ELSE TitlebarHeight)

CursorInsideEffectiveBox ==
    /\ cursor.present
    /\ EffX <= cursor.x /\ cursor.x < EffX + EffWidth
    /\ EffY <= cursor.y /\ cursor.y < EffY + EffHeight

Decorated == ssd # NULL /\ view.ssd_enabled

\* C3: for a window with decorations enabled and not fullscreen,
\* get_resizing_type returns NONE for every cursor inside the effective
\* box (the content box with the effective height, extended upward by the
\* titlebar height exactly when the titlebar is not hidden).
C3_InsideEffectiveBoxIsNone ==
    (/\ point_op = "get_resizing_type"
     /\ Decorated
     /\ ~view.fullscreen
     /\ CursorInsideEffectiveBox)
        => point_result.type = "LAB_SSD_NONE"

\* C3 witness: a cursor over the visible titlebar (above the content box)
\* of a decorated, windowed view has been classified NONE.
C3_Witness ==
    /\ point_op = "get_resizing_type"
    /\ Decorated
    /\ ~view.fullscreen
    /\ ~view.ssd_titlebar_hidden
    /\ CursorInsideEffectiveBox
    /\ cursor.y < view.current.y
    /\ point_result.type = "LAB_SSD_NONE"

\* C4: get_resizing_type returns NONE for every cursor and every box
\* whenever the window is fullscreen, or its decorations are disabled, or
\* no decoration or no cursor is supplied.
C4_GuardsYieldNone ==
    (/\ point_op = "get_resizing_type"
     /\ \/ view.fullscreen
        \/ ~view.ssd_enabled
        \/ ssd = NULL
        \/ ~cursor.present)
        => point_result.type = "LAB_SSD_NONE"

\* C4 witness: a fullscreen, decorated view with the cursor left of its
\* box (a resize zone when windowed) has been classified NONE.
C4_Witness ==
    /\ point_op = "get_resizing_type"
    /\ Decorated
    /\ view.fullscreen
    /\ cursor.present
    /\ cursor.x < view.current.x
    /\ point_result.type = "LAB_SSD_NONE"

Clamp(v, lo, hi) == IF v < lo THEN lo ELSE IF v > hi THEN hi ELSE v

\* C5: the corner zone sizes are clamp(range, 0, width/2) and
\* clamp(range, 0, height/2) of the effective box, so they never exceed
\* half the box (range 10000 on a 40x40 box gives 20x20), and the left and
\* right zones are never both hit, nor the top and bottom zones.
C5_CornerZonesClamped ==
    (point_op = "get_resizing_type" /\ point_result.zones.computed) =>
        LET z == point_result.zones
        IN  /\ z.corner_width = Clamp(resize_corner_range, 0, EffWidth \div 2)
            /\ z.corner_height = Clamp(resize_corner_range, 0, EffHeight \div 2)
            /\ 2 * z.corner_width <= EffWidth
            /\ 2 * z.corner_height <= EffHeight
            /\ (EffWidth = 40 /\ EffHeight = 40 /\ resize_corner_range = 10000
                  => z.corner_width = 20 /\ z.corner_height = 20)
            /\ ~(z.left /\ z.right)
            /\ ~(z.top /\ z.bottom)

\* C5 witness: a range of 10000 on a 40x40 effective box has produced
\* 20x20 corner zones.
C5_Witness ==
    /\ point_op = "get_resizing_type"
    /\ point_result.zones.computed
    /\ EffWidth = 40 /\ EffHeight = 40
    /\ resize_corner_range = 10000
    /\ point_result.zones.corner_width = 20
    /\ point_result.zones.corner_height = 20

\* get_resizing_type has run for a decorated, windowed view with a cursor.
ClassifiedPoint ==
    /\ point_op = "get_resizing_type"
    /\ Decorated
    /\ ~view.fullscreen
    /\ cursor.present

\* The corner zone sizes of the effective box.
CornerWidth == Clamp(resize_corner_range, 0, EffWidth \div 2)
CornerHeight == Clamp(resize_corner_range, 0, EffHeight \div 2)

\* C23: for a decorated, windowed view whose effective box has corner
\* width and corner height of at least 1, get_resizing_type returns one of
\* the eight edge and corner types for every cursor outside the effective
\* box and NONE only for cursors inside it.
C23_NoGapAroundBox ==
    (ClassifiedPoint /\ CornerWidth >= 1 /\ CornerHeight >= 1) =>
        /\ point_result.type = "LAB_SSD_NONE" <=> CursorInsideEffectiveBox
        /\ ~CursorInsideEffectiveBox => point_result.type \in Edges \cup Corners

\* C23 witness: a cursor on the first column right of the box, level with
\* its middle, has been classified as the right edge.
C23_Witness ==
    /\ ClassifiedPoint
    /\ CornerWidth >= 1 /\ CornerHeight >= 1
    /\ cursor.x = EffX + EffWidth
    /\ cursor.y >= EffY + CornerHeight
    /\ cursor.y <= EffY + EffHeight - CornerHeight
    /\ point_result.type = "LAB_SSD_PART_RIGHT"

\* C23, why the corner sizes matter: with a corner width of 0 a cursor on
\* that column is outside the box and classified NONE.
C23_GapWithoutCornerReached ==
    /\ ClassifiedPoint
    /\ CornerWidth = 0
    /\ EffWidth > 0 /\ EffHeight > 0
    /\ cursor.x = EffX + EffWidth
    /\ ~CursorInsideEffectiveBox
    /\ point_result.type = "LAB_SSD_NONE"

(***************************************************************************)
(* Claims about the node classifier (checked under SpecNode)               *)
(***************************************************************************)

\* ssd_get_part_type has run on a node of a decorated window that is not
\* client content.
ClassifiedDecorationNode ==
    /\ node_op = "ssd_get_part_type"
    /\ scene_node.present
    /\ ~scene_node.client
    /\ ssd # NULL

\* What classify_point yields for the cursor, and the node-based result.
PointType == get_resizing_type(ssd, cursor, view, resize_corner_range).type
NodeBasedType == node_part_type(scene_node)

\* C14 as claimed: for every non-client node of a decorated window, a
\* non-NONE resize type of classify_point for the supplied cursor is the
\* result of classify_node, and when classify_point yields NONE the
\* result is the node-based one.
C14_CursorOverridesEveryNode ==
    ClassifiedDecorationNode =>
        /\ (cursor.present /\ PointType # "LAB_SSD_NONE")
             => node_result.type = PointType
        /\ PointType = "LAB_SSD_NONE" => node_result.type = NodeBasedType

\* C14 as amended: for every non-client node of a decorated window whose
\* node-based result is not NONE, a non-NONE resize type of
\* classify_point for the supplied cursor is the result of classify_node,
\* and when classify_point yields NONE the result is the node-based one;
\* a node whose node-based result is NONE is classified NONE whatever the
\* cursor.
C14_CursorOverridesLabeledNode ==
    ClassifiedDecorationNode =>
        /\ (NodeBasedType # "LAB_SSD_NONE" /\ cursor.present
              /\ PointType # "LAB_SSD_NONE")
             => node_result.type = PointType
        /\ PointType = "LAB_SSD_NONE" => node_result.type = NodeBasedType
        /\ NodeBasedType = "LAB_SSD_NONE" => node_result.type = "LAB_SSD_NONE"

\* C14 witness: a titlebar button under a cursor in the top-left corner
\* zone is classified as that corner.
C14_Witness ==
    /\ ClassifiedDecorationNode
    /\ NodeBasedType = "LAB_SSD_BUTTON_CLOSE"
    /\ cursor.present
    /\ PointType = "LAB_SSD_PART_CORNER_TOP_LEFT"
    /\ node_result.type = "LAB_SSD_PART_CORNER_TOP_LEFT"

\* C14, the other case: the cursor is in no resize zone and the button is
\* classified as the button.
C14_NodeBasedReached ==
    /\ ClassifiedDecorationNode
    /\ cursor.present
    /\ PointType = "LAB_SSD_NONE"
    /\ node_result.type = "LAB_SSD_BUTTON_CLOSE"

\* C15: a node whose parent is the extents sub-tree is classified NONE by
\* classify_node for every cursor, also for cursors for which
\* classify_point yields an edge or corner type.
C15_ExtentsNodeIsNone ==
    (/\ node_op = "ssd_get_part_type"
     /\ scene_node.present
     /\ ~scene_node.client
     /\ scene_node.parent = "extents")
        => node_result.type = "LAB_SSD_NONE"

\* C15 witness: an extents node registered as the top-left corner, under a
\* cursor for which classify_point yields that corner, is classified NONE.
C15_Witness ==
    /\ ClassifiedDecorationNode
    /\ scene_node.parent = "extents"
    /\ scene_node.part = [list |-> "extents",
                          type |-> "LAB_SSD_PART_CORNER_TOP_LEFT"]
    /\ PointType = "LAB_SSD_PART_CORNER_TOP_LEFT"
    /\ node_result.type = "LAB_SSD_NONE"

(***************************************************************************)
(* Claims about decoration visibility (checked under SpecActive)           *)
(***************************************************************************)

\* The sub-tree nodes of a kind that exist on the decoration.
ExistingTrees(kind) ==
    { t \in SubTrees :
        /\ \E g \in {"border", "titlebar", "shadow"} : t = g \o "." \o kind
        /\ (t = "shadow." \o kind => shadow_tree[kind]) }

\* C10: after any sequence of ssd_set_active calls the active sub-trees
\* (border, titlebar, and shadow if present) are enabled iff the last
\* argument was true and the inactive ones iff it was false, so exactly
\* one of each active/inactive pair is enabled; with an absent decoration
\* the call changes nothing.
C10_SetActiveLockstep ==
    last_set_active.called =>
        IF deco # NULL
        THEN /\ \A t \in ExistingTrees("active") :
                    tree_enabled[t] = last_set_active.active
             /\ \A t \in ExistingTrees("inactive") :
                    tree_enabled[t] = ~last_set_active.active
             /\ tree_enabled["border.active"] # tree_enabled["border.inactive"]
             /\ tree_enabled["titlebar.active"] # tree_enabled["titlebar.inactive"]
             /\ (shadow_tree.active /\ shadow_tree.inactive
                   => tree_enabled["shadow.active"] # tree_enabled["shadow.inactive"])
        ELSE tree_enabled = last_set_active.before

\* C10 witness: ssd_set_active(ssd, false) has run on a decoration with
\* both shadow trees whose active sub-trees were enabled before.
C10_Witness ==
    /\ last_set_active.called
    /\ deco # NULL
    /\ ~last_set_active.active
    /\ shadow_tree.active /\ shadow_tree.inactive
    /\ last_set_active.before["titlebar.active"]
    /\ ~tree_enabled["titlebar.active"]
    /\ tree_enabled["titlebar.inactive"]
    /\ tree_enabled["shadow.inactive"]

(***************************************************************************)
(* Claims about move anchoring (checked under SpecAnchor)                  *)
(***************************************************************************)

\* t is the rational n/d (d > 0) truncated to an integer.
IsTruncation(t, n, d) ==
    IF n >= 0 THEN t * d <= n /\ n < (t + 1) * d
    ELSE (t - 1) * d < n /\ n <= t * d

\* p is max(old, cursor - new * (cursor - old) / size) truncated.
IsAnchored(p, old, size, grab, new) ==
    \E t \in (grab - new * (size + 2))..(grab + new * (size + 2)) :
        /\ IsTruncation(t, grab * size - new * (grab - old), size)
        /\ p = IF t < old THEN old ELSE t

AnchorApplied ==
    /\ anchor_op = "interactive_anchor_to_cursor"
    /\ ~wlr_box_empty(anchor_old.geo)

\* C6: in MOVE mode with a non-empty new box, on each axis (whose old
\* extent is positive) the grab box position becomes
\* max(old_pos, cursor - new_size * (cursor - old_pos) / old_size)
\* truncated to an integer and the grab box size the new size; old box
\* (0,0,200,100), grab cursor (150,50), new size 100x50 gives (75,25); the
\* new position is never less than the old position.
C6_AnchorPosition ==
    AnchorApplied =>
        LET old == anchor_old.grab_box
            new == anchor_old.geo
        IN  /\ grab_box.width = new.width
            /\ grab_box.height = new.height
            /\ (old.width > 0 =>
                  IsAnchored(grab_box.x, old.x, old.width, grab_x, new.width))
            /\ (old.height > 0 =>
                  IsAnchored(grab_box.y, old.y, old.height, grab_y, new.height))
            /\ grab_box.x >= old.x
            /\ grab_box.y >= old.y
            /\ ((/\ old = [x |-> 0, y |-> 0, width |-> 200, height |-> 100]
                 /\ grab_x = 150 /\ grab_y = 50
                 /\ new.width = 100 /\ new.height = 50)
                  => grab_box.x = 75 /\ grab_box.y = 25)

\* C6 witness: the documented example has been anchored at (75,25).
C6_Witness ==
    /\ AnchorApplied
    /\ anchor_old.grab_box = [x |-> 0, y |-> 0, width |-> 200, height |-> 100]
    /\ grab_x = 150 /\ grab_y = 50
    /\ grab_box = [x |-> 75, y |-> 25, width |-> 100, height |-> 50]

\* C6 second case: a larger new box, where the clamp to the old position
\* applies (the scaled position would lie before the old one).
C6_ClampReached ==
    /\ AnchorApplied
    /\ anchor_old.grab_box.width > 0
    /\ anchor_old.geo.width > anchor_old.grab_box.width
    /\ grab_x > anchor_old.grab_box.x
    /\ grab_box.x = anchor_old.grab_box.x

\* The grab point g lies within the extent [pos, pos + size] of an axis.
WithinAxis(pos, size, g) == pos <= g /\ g <= pos + size

\* C24: interactive_anchor_to_cursor keeps the grab point inside the grab
\* box: if the grab cursor lay within the old grab box on an axis of
\* positive old extent and the new box is non-empty, it lies within the
\* new grab box on that axis, whether or not the clamp applies.
C24_GrabPointStaysInside ==
    AnchorApplied =>
        LET old == anchor_old.grab_box
        IN  /\ (old.width > 0 /\ WithinAxis(old.x, old.width, grab_x))
                  => WithinAxis(grab_box.x, grab_box.width, grab_x)
            /\ (old.height > 0 /\ WithinAxis(old.y, old.height, grab_y))
                  => WithinAxis(grab_box.y, grab_box.height, grab_y)

\* C24 witness: a box grabbed strictly inside has shrunk; the scaled
\* position lies past the old one (no clamp) and the grab point is still
\* within the new box on the x axis.
C24_Witness ==
    /\ AnchorApplied
    /\ anchor_old.grab_box.width > 0
    /\ anchor_old.grab_box.x < grab_x
    /\ grab_x < anchor_old.grab_box.x + anchor_old.grab_box.width
    /\ grab_box.width < anchor_old.grab_box.width
    /\ grab_box.x > anchor_old.grab_box.x
    /\ WithinAxis(grab_box.x, grab_box.width, grab_x)

\* C24 second case: the box has grown, the clamp to the old position
\* applied, and the grab point is within the new box.
C24_ClampedReached ==
    /\ AnchorApplied
    /\ anchor_old.grab_box.height > 0
    /\ WithinAxis(anchor_old.grab_box.y, anchor_old.grab_box.height, grab_y)
    /\ grab_y > anchor_old.grab_box.y
    /\ grab_box.height > anchor_old.grab_box.height
    /\ grab_box.y = anchor_old.grab_box.y
    /\ WithinAxis(grab_box.y, grab_box.height, grab_y)

\* C24, why the grab must start inside: a grab point before the old box
\* is before the new box too.
C24_OutsideStaysOutsideReached ==
    /\ AnchorApplied
    /\ anchor_old.grab_box.width > 0
    /\ grab_x < anchor_old.grab_box.x
    /\ ~WithinAxis(grab_box.x, grab_box.width, grab_x)

(***************************************************************************)
(* Claims about snap-edge detection (checked under SpecEdge)               *)
(***************************************************************************)

\* The cursor in output-local coordinates and the margins it is within.
LocalX == edge_cursor.x - output.lx
LocalY == edge_cursor.y - output.ly
NearLeft == LocalX <= output.usable_area.x + snap_edge_range
NearRight ==
    LocalX >= output.usable_area.x + output.usable_area.width - snap_edge_range
NearTop == LocalY <= output.usable_area.y + snap_edge_range
NearBottom ==
    LocalY >= output.usable_area.y + output.usable_area.height - snap_edge_range

EdgeApplies ==
    /\ edge_op = "edge_from_cursor"
    /\ grabbed_floating
    /\ snap_edge_range # 0
    /\ output.usable

ExampleArea ==
    /\ output.usable_area = [x |-> 0, y |-> 0, width |-> 1000, height |-> 800]
    /\ snap_edge_range = 10

\* C7: for a floating grabbed window, a non-zero snap range and a usable
\* output, edge_from_cursor returns the first match in the order left,
\* right, top, bottom: LEFT, then RIGHT, then CENTER if snap-top-maximize
\* is set else UP, then DOWN, else INVALID, so a cursor near a left/right
\* margin and a top/bottom margin resolves to LEFT or RIGHT; on usable
\* area (0,0,1000,800) with range 10, (5,400) is LEFT, (995,400) RIGHT,
\* (500,5) UP or CENTER, (500,795) DOWN and (500,400) INVALID.
C7_SnapEdgeOrder ==
    EdgeApplies =>
        /\ (NearLeft => edge_result = "VIEW_EDGE_LEFT")
        /\ (~NearLeft /\ NearRight => edge_result = "VIEW_EDGE_RIGHT")
        /\ (~NearLeft /\ ~NearRight /\ NearTop =>
              edge_result = IF snap_top_maximize
                            THEN "VIEW_EDGE_CENTER" ELSE "VIEW_EDGE_UP")
        /\ (~NearLeft /\ ~NearRight /\ ~NearTop /\ NearBottom =>
              edge_result = "VIEW_EDGE_DOWN")
        /\ (~NearLeft /\ ~NearRight /\ ~NearTop /\ ~NearBottom =>
              edge_result = "VIEW_EDGE_INVALID")
        /\ ((NearLeft \/ NearRight) /\ (NearTop \/ NearBottom) =>
              edge_result \in {"VIEW_EDGE_LEFT", "VIEW_EDGE_RIGHT"})
        /\ (ExampleArea /\ LocalX = 5 /\ LocalY = 400 =>
              edge_result = "VIEW_EDGE_LEFT")
        /\ (ExampleArea /\ LocalX = 995 /\ LocalY = 400 =>
              edge_result = "VIEW_EDGE_RIGHT")
        /\ (ExampleArea /\ LocalX = 500 /\ LocalY = 5 /\ ~snap_top_maximize =>
              edge_result = "VIEW_EDGE_UP")
        /\ (ExampleArea /\ LocalX = 500 /\ LocalY = 5 /\ snap_top_maximize =>
              edge_result = "VIEW_EDGE_CENTER")
        /\ (ExampleArea /\ LocalX = 500 /\ LocalY = 795 =>
              edge_result = "VIEW_EDGE_DOWN")
        /\ (ExampleArea /\ LocalX = 500 /\ LocalY = 400 =>
              edge_result = "VIEW_EDGE_INVALID")

\* C7 witness: a cursor within both the right and the top margin of the
\* example area, on an output away from the layout origin, resolved RIGHT.
C7_Witness ==
    /\ EdgeApplies
    /\ ExampleArea
    /\ output.lx # 0
    /\ NearRight /\ NearTop /\ ~NearLeft
    /\ edge_result = "VIEW_EDGE_RIGHT"

\* C7 examples reached: (500,5) with snap-top-maximize gives CENTER.
C7_CenterReached ==
    /\ EdgeApplies
    /\ ExampleArea
    /\ LocalX = 500 /\ LocalY = 5
    /\ snap_top_maximize
    /\ edge_result = "VIEW_EDGE_CENTER"

(***************************************************************************)
(* Claims about window cycling (checked under SpecCycle)                   *)
(***************************************************************************)

\* The first osd_begin(FORWARD) of a session has just run from PASSTHROUGH
\* with no prior selection over the stack [W1, W2, W3], all matching.
FirstForwardBeginOverThree ==
    /\ cycle_last.op = "osd_begin"
    /\ cycle_last.dir = "LAB_CYCLE_DIR_FORWARD"
    /\ cycle_last.before.input_mode = "LAB_INPUT_STATE_PASSTHROUGH"
    /\ cycle_last.before.cycle_view = NULL
    /\ views = <<"W1", "W2", "W3">>
    /\ \A i \in 1..3 : matches[views[i]]

\* C8 as claimed: begin(FORWARD) with no prior selection over [W1,W2,W3]
\* pre-selects W2 and steps once more, so the selection afterwards is W3.
C8_BeginSelectsThird ==
    FirstForwardBeginOverThree => osd_state.cycle_view = "W3"

\* C8 as amended: begin(FORWARD) with no prior selection over [W1,W2,W3]
\* starts from the topmost window W1 and steps forward once, so the
\* selection afterwards is W2, the second topmost window, and the mode is
\* WINDOW_SWITCHER.
C8_BeginSelectsSecond ==
    FirstForwardBeginOverThree =>
        /\ osd_state.cycle_view = "W2"
        /\ input_mode = "LAB_INPUT_STATE_WINDOW_SWITCHER"

\* C8 witness: such a begin has run and W2 is selected.
C8_Witness ==
    /\ FirstForwardBeginOverThree
    /\ osd_state.cycle_view = "W2"

\* The selected view w, the only listed view matching the criteria, has
\* just been destroyed while the switcher was active.
OnlyMatchDestroyed ==
    /\ cycle_last.op = "osd_on_view_destroy"
    /\ cycle_last.before.input_mode = "LAB_INPUT_STATE_WINDOW_SWITCHER"
    /\ cycle_last.before.cycle_view = cycle_last.view
    /\ matches[cycle_last.view]
    /\ \A i \in 1..Len(views) : ~matches[views[i]]

\* C9: while the switcher is active, on_window_destroyed(w) for the
\* selected window w, when w is the only window matching the criteria,
\* force-finishes the session: the selection is none, the preview node is
\* restored (nothing is left in the preview tree; a previewed node that
\* still exists is back in the view tree, disabled again if it was
\* disabled before) and cleared, and the mode is no longer
\* WINDOW_SWITCHER.
C9_DestroyOnlyMatchFinishes ==
    OnlyMatchDestroyed =>
        /\ osd_state.cycle_view = NULL
        /\ osd_state.preview_node = NULL
        /\ osd_state.preview_parent = NULL
        /\ osd_state.preview_anchor = NULL
        /\ input_mode # "LAB_INPUT_STATE_WINDOW_SWITCHER"
        /\ ~focus_override
        /\ scene.ontop_tree = <<>>
        /\ LET p == cycle_last.before.preview_node
           IN  (p # NULL /\ InSeq(views, p)) =>
                  /\ InSeq(scene.view_tree, p)
                  /\ (~cycle_last.before.preview_was_enabled
                        => ~scene.enabled[p])

\* C9 witness: the destroyed selection was being previewed, other views
\* that do not match remain, and the session is finished.
C9_Witness ==
    /\ OnlyMatchDestroyed
    /\ cycle_last.before.preview_node = cycle_last.view
    /\ Len(views) > 0
    /\ osd_state.cycle_view = NULL
    /\ input_mode = "LAB_INPUT_STATE_PASSTHROUGH"

\* osd_finish has just run.
FinishRan == cycle_last.op = "osd_finish"

\* C13: osd_finish called from any cycle state leaves the cycle state
\* fully reset: selection, preview node, preview parent, preview anchor
\* and outline are none, nothing is left in the preview tree, and the
\* mode is idle with the focus override ended; calling it again, or with
\* no session active, changes nothing.
C13_FinishResetsIdempotent ==
    /\ FinishRan =>
          /\ osd_state.cycle_view = NULL
          /\ osd_state.preview_node = NULL
          /\ osd_state.preview_parent = NULL
          /\ osd_state.preview_anchor = NULL
          /\ osd_state.preview_outline = NULL
          /\ scene.ontop_tree = <<>>
          /\ input_mode = "LAB_INPUT_STATE_PASSTHROUGH"
          /\ ~focus_override
    /\ input_mode = "LAB_INPUT_STATE_PASSTHROUGH" =>
          osd_finish(osd_state, scene) =
              unchanged_state(osd_state, scene, input_mode, focus_override)

\* C13 witness: osd_finish ended a session whose selection was previewed.
C13_Witness ==
    /\ FinishRan
    /\ cycle_last.before.input_mode = "LAB_INPUT_STATE_WINDOW_SWITCHER"
    /\ cycle_last.before.cycle_view # NULL
    /\ cycle_last.before.preview_node = cycle_last.before.cycle_view
    /\ osd_state = [NoOsdState EXCEPT !.preview_was_enabled =
                       osd_state.preview_was_enabled]
    /\ input_mode = "LAB_INPUT_STATE_PASSTHROUGH"

\* C13, the redundant call: osd_finish ran with no session active.
C13_RedundantReached ==
    /\ FinishRan
    /\ cycle_last.before.input_mode = "LAB_INPUT_STATE_PASSTHROUGH"
    /\ Len(views) > 0

\* osd_on_view_destroy(w) has just run.
DestroyRan == cycle_last.op = "osd_on_view_destroy"

\* C17: after on_window_destroyed(w), in any reachable cycle state, no
\* field of the cycle state refers to w: the selection is not w, and
\* neither the preview node nor the preview anchor is w's scene node; an
\* anchor that was w's node is now the node that was right below it.
C17_NoReferenceToDestroyed ==
    DestroyRan =>
        /\ osd_state.cycle_view # cycle_last.view
        /\ osd_state.preview_node # cycle_last.view
        /\ osd_state.preview_anchor # cycle_last.view
        /\ (cycle_last.before.preview_anchor = cycle_last.view
              /\ input_mode = "LAB_INPUT_STATE_WINDOW_SWITCHER")
             => osd_state.preview_anchor = cycle_last.below

\* C17, the part the code keeps: selection and anchor never refer to w.
C17_SelectionAndAnchorCleared ==
    DestroyRan =>
        /\ osd_state.cycle_view # cycle_last.view
        /\ osd_state.preview_anchor # cycle_last.view
        /\ (cycle_last.before.preview_anchor = cycle_last.view
              /\ input_mode = "LAB_INPUT_STATE_WINDOW_SWITCHER")
             => osd_state.preview_anchor = cycle_last.below

\* C17: the previewed selection was destroyed and another match took
\* over; the preview node still is the destroyed view's node.
C17_DanglingPreviewReached ==
    /\ DestroyRan
    /\ cycle_last.before.cycle_view = cycle_last.view
    /\ osd_state.preview_node = cycle_last.view
    /\ osd_state.cycle_view # NULL

\* C17: the anchor of the preview was destroyed and replaced.
C17_AnchorReplacedReached ==
    /\ DestroyRan
    /\ cycle_last.before.preview_anchor = cycle_last.view
    /\ input_mode = "LAB_INPUT_STATE_WINDOW_SWITCHER"
    /\ osd_state.preview_anchor # NULL

\* The stacking of the listed views with no preview in place: the scene
\* follows server->views, and only the preview takes a node out of it.
OriginalStacking(list) == Reverse(list)

\* The step is an osd_finish that finds a preview node recorded, the node
\* of a view that still exists.
FinishOfPreview ==
    /\ cycle_last'.op = "osd_finish"
    /\ osd_state.preview_node # NULL
    /\ InSeq(views, osd_state.preview_node)

\* C21: when a preview node is recorded, osd_finish puts it back under
\* its recorded parent, right above the recorded anchor if there is one
\* and else at the very bottom, disables it again iff it was disabled
\* before the preview, and leaves the order of the other siblings and
\* their flags as they were; the stacking is the original one again.
C21_FinishRestoresPreview ==
    [][ FinishOfPreview =>
          LET p == osd_state.preview_node
              a == osd_state.preview_anchor
              tree == scene'.view_tree
          IN  /\ parent_of(scene', p) = osd_state.preview_parent
              /\ IF a # NULL
                 THEN /\ InSeq(tree, a)
                      /\ IndexOf(tree, p) = IndexOf(tree, a) + 1
                 ELSE tree[1] = p
              /\ scene'.enabled[p] = osd_state.preview_was_enabled
              /\ Without(tree, p) = Without(scene.view_tree, p)
              /\ \A v \in AllViews \ {p} : scene'.enabled[v] = scene.enabled[v]
              /\ scene'.ontop_tree = <<>>
              /\ tree = OriginalStacking(views')
      ]_vars

\* C21 witness: osd_finish has put a minimized view back above its anchor,
\* between two other views, and disabled it again.
C21_Witness ==
    /\ FinishRan
    /\ cycle_last.before.preview_node # NULL
    /\ cycle_last.before.preview_anchor # NULL
    /\ ~cycle_last.before.preview_was_enabled
    /\ Len(scene.view_tree) = 3
    /\ scene.view_tree[2] = cycle_last.before.preview_node
    /\ scene.view_tree[1] = cycle_last.before.preview_anchor
    /\ ~scene.enabled[cycle_last.before.preview_node]

\* C21, the other case: a view with no anchor went back to the bottom
\* after its first anchor had been destroyed.
C21_BottomReached ==
    /\ FinishRan
    /\ cycle_last.before.preview_node # NULL
    /\ cycle_last.before.preview_anchor = NULL
    /\ Len(scene.view_tree) = 2
    /\ scene.view_tree[1] = cycle_last.before.preview_node
    /\ cycle_last.before.preview_node # ViewNames[MaxViews]

\* The listed views that match the criteria, topmost first.
Filtered == SelectSeq(views, LAMBDA v : matches[v])

\* The position one step from i around a ring of n positions.
RingStep(i, n, dir) ==
    IF dir = "LAB_CYCLE_DIR_FORWARD" THEN (i % n) + 1
    ELSE ((i + n - 2) % n) + 1

\* osd_cycle has just run in WINDOW_SWITCHER mode from a selection, over a
\* list with at least one matching view.
CycleStepRan ==
    /\ cycle_last.op = "osd_cycle"
    /\ cycle_last.before.cycle_view # NULL
    /\ Len(Filtered) >= 1

\* C22: in WINDOW_SWITCHER mode over an unchanged list with at least one
\* matching view, osd_cycle moves the selection by exactly one position
\* in the requested direction over the filtered, stacking-ordered list,
\* wrapping at the ends; the selection is a listed view, and a forward
\* step followed by a backward step (or the reverse) comes back to it.
C22_CycleStepsByOne ==
    /\ CycleStepRan =>
          /\ InSeq(Filtered, cycle_last.before.cycle_view)
          /\ osd_state.cycle_view =
                Filtered[RingStep(IndexOf(Filtered, cycle_last.before.cycle_view),
                                  Len(Filtered), cycle_last.dir)]
          /\ InSeq(views, osd_state.cycle_view)
    /\ (input_mode = "LAB_INPUT_STATE_WINDOW_SWITCHER"
          /\ osd_state.cycle_view # NULL) =>
          /\ InSeq(views, osd_state.cycle_view)
          /\ get_next_cycle_view(views, matches,
                 get_next_cycle_view(views, matches, osd_state.cycle_view,
                                     "LAB_CYCLE_DIR_FORWARD"),
                 "LAB_CYCLE_DIR_BACKWARD") = osd_state.cycle_view
          /\ get_next_cycle_view(views, matches,
                 get_next_cycle_view(views, matches, osd_state.cycle_view,
                                     "LAB_CYCLE_DIR_BACKWARD"),
                 "LAB_CYCLE_DIR_FORWARD") = osd_state.cycle_view

\* C22 witness: a backward step from the topmost of three matching views
\* has wrapped to the last one.
C22_Witness ==
    /\ CycleStepRan
    /\ Len(Filtered) = 3
    /\ cycle_last.dir = "LAB_CYCLE_DIR_BACKWARD"
    /\ cycle_last.before.cycle_view = Filtered[1]
    /\ osd_state.cycle_view = Filtered[3]

\* C22, forward: a forward step over a list with a view that does not
\* match has skipped it.
C22_ForwardSkipReached ==
    /\ CycleStepRan
    /\ cycle_last.dir = "LAB_CYCLE_DIR_FORWARD"
    /\ Len(views) = 3
    /\ ~matches[views[2]]
    /\ cycle_last.before.cycle_view = views[1]
    /\ osd_state.cycle_view = views[3]

(***************************************************************************)
(* Claims about grab and switcher sessions (checked under SpecSession)     *)
(***************************************************************************)

Idle == "LAB_INPUT_STATE_PASSTHROUGH"

\* interactive_cancel(v) has just run.
CancelRan == cycle_last.op = "interactive_cancel"

\* ... on the view that was grabbed.
CancelledGrab ==
    /\ CancelRan
    /\ cycle_last.before.grabbed_view = cycle_last.view

\* C11: interactive_cancel(v) for a view v that is not the grabbed view
\* (also when no view is grabbed) changes nothing: grabbed view, input
\* mode, snap overlay and focus override are as before and no
\* collaborator is invoked; for the grabbed view, afterwards no view is
\* grabbed and the focus override has been ended.
C11_CancelOnlyGrabbed ==
    CancelRan =>
        IF cycle_last.before.grabbed_view # cycle_last.view
        THEN /\ grabbed_view = cycle_last.before.grabbed_view
             /\ input_mode = cycle_last.before.input_mode
             /\ overlay = cycle_last.before.overlay
             /\ focus_override = cycle_last.before.focus_override
             /\ cancel_calls = <<>>
        ELSE /\ grabbed_view = NULL
             /\ ~focus_override
             /\ cancel_calls[Len(cancel_calls)].call = "seat_focus_override_end"

\* C11 witness: a grab with the overlay shown was cancelled.
C11_Witness ==
    /\ CancelledGrab
    /\ cycle_last.before.overlay
    /\ cycle_last.before.focus_override
    /\ grabbed_view = NULL
    /\ ~focus_override

\* C11, the other case: a cancel for another view ran during a grab with
\* the overlay shown and left it all in place.
C11_NoOpReached ==
    /\ CancelRan
    /\ cycle_last.before.grabbed_view \notin {NULL, cycle_last.view}
    /\ overlay
    /\ grabbed_view = cycle_last.before.grabbed_view

\* C12 as claimed: a non-idle input mode (MOVE, RESIZE or WINDOW_SWITCHER)
\* implies a grabbed view.
C12_NonIdleImpliesGrabbed ==
    input_mode # Idle => grabbed_view # NULL

\* C12 as amended: MOVE or RESIZE implies a grabbed view, which is a
\* listed view; WINDOW_SWITCHER is entered by osd_begin, which grabs no
\* view.
C12_GrabModeImpliesGrabbed ==
    input_mode \in GrabModes =>
        /\ grabbed_view # NULL
        /\ InSeq(views, grabbed_view)

\* C12 witness: a grab is on after an earlier one was cancelled and a
\* view was destroyed.
C12_Witness ==
    /\ input_mode \in GrabModes
    /\ grabbed_view # NULL
    /\ cancel_calls # <<>>
    /\ Len(views) < MaxViews

\* C12: the switcher is active with no grabbed view.
C12_SwitcherWithoutGrab ==
    /\ input_mode = "LAB_INPUT_STATE_WINDOW_SWITCHER"
    /\ grabbed_view = NULL

\* C16 as claimed: when interactive_cancel runs on the grabbed view, no
\* collaborator is invoked while the grabbed view is still set.
C16_ClearBeforeCollaborators ==
    CancelledGrab =>
        \A i \in 1..Len(cancel_calls) : cancel_calls[i].grabbed_view = NULL

\* C16 as amended: when interactive_cancel runs on the grabbed view, the
\* snap overlay is hidden first, while the grabbed view is still set; the
\* grabbed view is cleared next; the focus override is ended, which
\* restores the idle mode, only after the grabbed view is cleared.
C16_HideThenClearThenEnd ==
    CancelledGrab =>
        /\ cancel_calls =
              << Call("overlay_hide", cycle_last.view),
                 Call("seat_focus_override_end", NULL) >>
        /\ grabbed_view = NULL
        /\ input_mode = Idle
        /\ ~overlay

\* C16 witness: a grab with the overlay shown was cancelled.
C16_Witness ==
    /\ CancelledGrab
    /\ cycle_last.before.overlay
    /\ cycle_last.before.input_mode = "LAB_INPUT_STATE_MOVE"
    /\ Len(cancel_calls) = 2
    /\ ~overlay

\* osd_begin has just run.
BeginRan == cycle_last.op = "osd_begin"

C18_BeginInSwitcherReached ==
    /\ BeginRan
    /\ cycle_last.before.input_mode = "LAB_INPUT_STATE_WINDOW_SWITCHER"
    /\ osd_state.cycle_view # NULL
    /\ Len(views) > 1

C18_BeginFromIdleReached ==
    /\ BeginRan
    /\ cycle_last.before.input_mode = Idle
    /\ input_mode = "LAB_INPUT_STATE_WINDOW_SWITCHER"

(***************************************************************************)
(* Claims about workspaces (checked under SpecWorkspace and SpecFind)      *)
(***************************************************************************)

\* workspaces_init has run.
WorkspacesExist == ws_call.op # "none"

\* The step is a call workspaces_switch_to(target, ...).
SwitchStep == ws_call'.op = "workspaces_switch_to"

\* C25: after workspaces_init and any sequence of workspaces_switch_to and
\* workspaces_reconfigure (at least one workspace configured throughout)
\* the current workspace is in the list and is the only workspace whose
\* tree is enabled; workspaces_switch_to(target) changes nothing when
\* target is current and otherwise sets last to the previous current and
\* current to target.
C25_CurrentIsTheEnabledOne ==
    /\ [](WorkspacesExist =>
            /\ workspaces.current \in Members(workspaces.all)
            /\ \A id \in WorkspaceIds :
                  ws_heap[id].enabled <=> id = workspaces.current)
    /\ [][SwitchStep =>
            IF ws_call'.target = workspaces.current
            THEN UNCHANGED <<workspaces, ws_heap, ws_views>>
            ELSE /\ workspaces'.last = workspaces.current
                 /\ workspaces'.current = ws_call'.target]_vars

\* C25 witness: a switch to another workspace has been made, among at
\* least three; the target is current and enabled, the one left is last
\* and disabled.
C25_Witness ==
    /\ ws_call.op = "workspaces_switch_to"
    /\ ws_call.target # ws_call.old_current
    /\ Len(workspaces.all) >= 3
    /\ workspaces.current = ws_call.target
    /\ workspaces.last = ws_call.old_current
    /\ ws_heap[ws_call.target].enabled
    /\ ~ws_heap[ws_call.old_current].enabled

\* C25 second case: a switch to the workspace that was current already,
\* after an earlier switch.
C25_NoOpReached ==
    /\ ws_call.op = "workspaces_switch_to"
    /\ ws_call.target = ws_call.old_current
    /\ workspaces.current = ws_call.target
    /\ workspaces.last # NoWorkspace

\* The names of the workspaces of the list, in list order.
ListNames == [i \in 1..Len(workspaces.all) |-> ws_heap[workspaces.all[i]].name]

ReconfigureRan == ws_call.op = "workspaces_reconfigure"

\* C26: after workspaces_reconfigure (at least one workspace configured)
\* the list holds exactly the configured number of workspaces with the
\* configured names in order, and nothing refers to a destroyed
\* workspace: every view that was on one is on the first workspace, and
\* neither current nor last is one.
C26_ReconfigureMatchesConfig ==
    ReconfigureRan =>
        /\ ListNames = rc_workspaces
        /\ \A v \in ws_call.moved :
              ws_views[v].workspace = workspaces.all[1]
        /\ workspaces.current \notin ws_call.destroyed
        /\ workspaces.last \notin ws_call.destroyed
        /\ \A id \in ws_call.destroyed : ~ws_heap[id].live
        /\ \A v \in WsViews :
              ws_views[v].exists => ws_heap[ws_views[v].workspace].live
        /\ ws_heap[workspaces.current].live
        /\ workspaces.last # NoWorkspace => ws_heap[workspaces.last].live

\* C26 witness: a reconfigure destroyed the current workspace, which held
\* a view, and renamed the first; the view and current are on the first.
C26_Witness ==
    /\ ReconfigureRan
    /\ ws_call.old_current \in ws_call.destroyed
    /\ ws_call.moved # {}
    /\ workspaces.current = workspaces.all[1]
    /\ workspaces.last = workspaces.all[1]
    /\ ws_heap[workspaces.all[1]].name = WorkspaceNames[2]
    /\ \A v \in ws_call.moved : ws_views[v].workspace = workspaces.all[1]

\* C26 second case: a reconfigure destroyed the last-visited workspace
\* only, and current stayed where it was.
C26_LastDestroyedReached ==
    /\ ReconfigureRan
    /\ ws_call.destroyed # {}
    /\ ws_call.old_current \notin ws_call.destroyed
    /\ workspaces.current = ws_call.old_current
    /\ workspaces.current # workspaces.all[1]
    /\ workspaces.last = workspaces.all[1]

\* C26 third case: a reconfigure added workspaces.
C26_AddedReached ==
    /\ ReconfigureRan
    /\ ws_call.destroyed = {}
    /\ Len(workspaces.all) = MaxWorkspaces
    /\ \E id \in Members(workspaces.all) :
          id # workspaces.current /\ id # workspaces.last
             /\ \A v \in WsViews : ws_views[v].workspace # id

\* workspaces_find has been asked for "left" or "right", in any case.
FoundNeighbour ==
    /\ find_call.op = "workspaces_find"
    /\ tolower(find_call.name) \in {"left", "right"}

Opposite(name) == IF tolower(name) = "left" THEN "right" ELSE "left"

\* k successive lookups with wrap, each anchored at the previous result.
RECURSIVE FindRepeated(_, _, _)
FindRepeated(anchor, name, k) ==
    IF k = 0 \/ anchor = NoWorkspace THEN anchor
    ELSE FindRepeated(workspaces_find(Server, anchor, name, TRUE), name, k - 1)

\* C27: workspaces_find(anchor, "left"/"right", wrap) returns the
\* workspace just before/after the anchor in list order; at the
\* first/last workspace it returns none without wrap and the last/first
\* workspace with wrap; with wrap on a list of n workspaces n successive
\* lookups return to the anchor, and "left" undoes "right".
C27_FindNeighbours ==
    FoundNeighbour =>
        LET all == workspaces.all
            n == Len(all)
            i == IndexOf(all, find_call.anchor)
            expected ==
                IF tolower(find_call.name) = "right"
                THEN IF i < n THEN all[i + 1]
                     ELSE IF find_call.wrap THEN all[1] ELSE NoWorkspace
                ELSE IF i > 1 THEN all[i - 1]
                     ELSE IF find_call.wrap THEN all[n] ELSE NoWorkspace
        IN  /\ find_call.result = expected
            /\ FindRepeated(find_call.anchor, find_call.name, n) = find_call.anchor
            /\ find_call.result # NoWorkspace =>
                  workspaces_find(Server, find_call.result,
                                  Opposite(find_call.name), find_call.wrap)
                      = find_call.anchor

\* C27 witness: "right" with wrap at the last of three workspaces has
\* given the first.
C27_Witness ==
    /\ FoundNeighbour
    /\ tolower(find_call.name) = "right"
    /\ find_call.wrap
    /\ Len(workspaces.all) = 3
    /\ find_call.anchor = workspaces.all[3]
    /\ find_call.result = workspaces.all[1]

\* C27 second case: "left" without wrap at the first workspace has given
\* none.
C27_NoWrapReached ==
    /\ FoundNeighbour
    /\ tolower(find_call.name) = "left"
    /\ ~find_call.wrap
    /\ find_call.anchor = workspaces.all[1]
    /\ find_call.result = NoWorkspace

====
